---- MODULE Spec2Model ----
(***************************************************************************)
(* Model of the concurrent gradebook export pipeline of jorcleme/netacad.  *)
(*                                                                         *)
(* Spec      src/courses.py: process_courses fans the collected courses   *)
(*           out over a thread pool, one worker_handle_course per batch,   *)
(*           each worker running execute_gradebook_actions per course,     *)
(*           then aggregates and saves the JSON summary.                   *)
(*                                                                         *)
(* SpecFast  src/course_export_optimized.py: process_single_course, one   *)
(*           call per course on a thread of its own, running               *)
(*           execute_gradebook_actions_fast and add_course_id_to_csv.      *)
(*                                                                         *)
(* SpecBackend  src/backend/app/utils/course_gradebook.py:                 *)
(*           GradebookManager._download_sequential calling                 *)
(*           download_gradebook per course, down to process_csv_file.      *)
(*                                                                         *)
(* Each specification runs one program; the variables of the other         *)
(* programs stay as they are before that program starts.                   *)
(*                                                                         *)
(* Python's None is the string "None"; worker ids are 1-based here         *)
(* (enumerate() in the source is 0-based).                                 *)
(***************************************************************************)
EXTENDS Integers, Sequences, FiniteSets, TLC

\* ---------------------------------------------------------------- bounds
MaxTasks == 2
MaxWorkers == 2
\* the task lists and worker counts the batch split is run on
MaxPartTasks == 9
MaxPartWorkers == 4
\* the download wait alone: the sizes a file grows through, the polls before the timeout
MaxSize == 2
MaxPolls == 2

VARIABLES
    course_data,          \* process_courses: the (url, course_id, name) tasks, by course_id
    MAX_WORKERS,          \* constants.MAX_WORKERS, the configured worker count
    batches,              \* process_courses: the per-worker batches
    opc,                  \* process_courses: where the orchestrator is
    collected,            \* futures as_completed has already yielded
    all_results,          \* process_courses: all_results
    wpc,                  \* worker_handle_course: where each worker is
    pos,                  \* worker_handle_course: index of the next course of the batch
    results,              \* worker_handle_course: the local results list
    browser,              \* worker_handle_course: the worker's browser session
    download_dir,         \* workers[worker_id]["download_dir"] on disk
    future,               \* the executor's future of each worker
    sm_outcome,           \* history: what execute_gradebook_actions returned per course
    sm_run,               \* history: what each step of that call did, per course
    escaped,              \* history: courses whose execute_gradebook_actions raised
    login_failed,         \* history: workers whose login() returned False
    _all_course_results,  \* module global
    _course_ids,          \* module global
    _course_csv_files,    \* module global
    _failed_course_ids,   \* module global
    export_data,          \* save_courses_data_to_json: the report built
    json_file,            \* DATA_DIR / "courses_export_summary.json" on disk
    fast_pc,              \* process_single_course: where each call is
    fast_result,          \* process_single_course: the value each call returns
    courses,              \* _download_sequential: the courses, by course_id
    seq_results,          \* _download_sequential: results
    dg_pc,                \* download_gradebook: where the current call is
    result,               \* download_gradebook: result
    is_logged_in,         \* GradebookManager.is_logged_in
    login_attempts,       \* history: perform_login calls during the current download_gradebook
    dl_batches,           \* the batch of each worker whose downloads are followed
    workers,              \* courses.py global: worker_id -> download_dir ("" before add_worker)
    prefs,                \* download.default_directory of each worker's browser ("" without one)
    disk,                 \* directory -> the csv files in it, oldest first
    pending,              \* downloads each browser has started and not yet written
    dl_pc,                \* where each worker is in its download flow
    dl_pos,               \* index of the worker's current course
    initial_files,        \* wait_for_parallel_download: initial_files
    picked,               \* history: the file each download wait returned, and for which course
    dl_run,               \* the run of process_courses the workers belong to, from 1
    part_data,            \* the batch split alone: course_data
    part_W,               \* the batch split alone: MAX_WORKERS
    course_batches,       \* the batch split alone: batches / course_batches
    part_pc,              \* the batch split alone: where the split is
    course_tuples,        \* course_export_parallel.py: the courses submitted to the pool
    pw_pc,                \* export_course_worker: where each worker is
    pw_result,            \* export_course_worker: each worker's result object
    attempt,              \* open_dropdown: attempt, of each worker
    _results_lock,        \* the worker holding _results_lock, 0 when it is free
    shared_results,       \* the global results list the workers append to
    wait_fn,              \* the download wait alone: the function that waits
    csv_size,             \* size of the csv the browser writes, -1 while there is none
    writing,              \* the browser has not finished writing it
    wait_pc,              \* where the wait is
    prev_size,            \* wait_for_parallel_download: prev_size
    size_checks,          \* wait_for_parallel_download: iterations of range(3) done
    polls,                \* one-second sleeps of the outer loop so far
    wait_ret,             \* what the wait returned, with what it last saw
    modal_fn,             \* the modal handler alone: the function that runs
    modal_present,        \* the export modal is shown when the handler starts
    has_primary,          \* the modal has a visible OK/Close/btn-primary button
    has_close,            \* the modal has a visible close control
    modal_pc,             \* where the handler is
    tried,                \* history: the dismissal strategies attempted, in order
    closed,               \* _handle_export_modal: closed
    dismissed,            \* the modal has gone from the page
    modal_queue,          \* the courses whose export is still to be triggered
    tf_fn,                \* the transform alone: the function that runs
    raw_file,             \* the raw download: its kind (missing, malformed, table) and lines
    raw_exists,           \* the raw download is on disk
    tf_io,                \* the write or unlink that will raise OSError, "ok" for none
    tf_pc,                \* where the transform is
    tf_df,                \* df, <<>> before it is read
    csv_file,             \* the machine table on disk, <<>> before it is written
    md_file,              \* the narrative document on disk, <<>> before it is written
    tf_ret,               \* what the transform returned
    nm_fn,                \* the artifact naming alone: the program that exports
    nm_courses,           \* the course name of each course id of the run
    now,                  \* datetime.now(), in whole seconds
    artifacts,            \* history: the csv path each export wrote, and for which course
    col_fn,               \* the course collector alone: the function that collects
    col_urls,             \* course_urls (the urls of course_data in courses.py)
    col_names,            \* course_names (the names of course_data in courses.py)
    col_pc,               \* where the collector is
    col_ret,              \* the (urls, names) the collector returned
    anchors_read,         \* history: the anchors read from the pages so far
    page_items,           \* history: the number of anchors found on each page visited
    _is_logged_in,        \* GradebookManager._is_logged_in (class level)
    _page,                \* GradebookManager._page (class level)
    page_at,              \* what each worker page shows
    gm_pc,                \* position of each download_with_semaphore
    gm_try,               \* navigation attempt of each download_gradebook
    sync_status,          \* rows of table sync_status, id = position
    background_tasks,     \* sync_courses_background tasks, by sync id
    sync_response,        \* response to each POST /sync, <<>> before
    SESSION_POOL,         \* dict sid -> user id
    USER_POOL,            \* dict user id -> list of sids
    sio_state             \* new, connected or disconnected, per sid

vars == <<course_data, MAX_WORKERS, batches, opc, collected, all_results, wpc, pos,
          results, browser, download_dir, future, sm_outcome, sm_run, escaped,
          login_failed, _all_course_results, _course_ids, _course_csv_files,
          _failed_course_ids, export_data, json_file, fast_pc, fast_result,
          courses, seq_results, dg_pc, result, is_logged_in, login_attempts,
          dl_batches, workers,
          prefs, disk, pending, dl_pc, dl_pos, initial_files, picked, dl_run,
          part_data, part_W, course_batches, part_pc,
          course_tuples, pw_pc, pw_result, attempt, _results_lock, shared_results,
          wait_fn, csv_size, writing, wait_pc, prev_size, size_checks, polls, wait_ret,
          modal_fn, modal_present, has_primary, has_close, modal_pc, tried, closed,
          dismissed, modal_queue,
          tf_fn, raw_file, raw_exists, tf_io, tf_pc, tf_df, csv_file, md_file, tf_ret,
          nm_fn, nm_courses, now, artifacts,
          col_fn, col_urls, col_names, col_pc, col_ret, anchors_read, page_items,
          _is_logged_in, _page, page_at, gm_pc, gm_try,
          sync_status, background_tasks, sync_response,
          SESSION_POOL, USER_POOL, sio_state>>

socket_vars == <<SESSION_POOL, USER_POOL, sio_state>>

sync_vars == <<sync_status, background_tasks, sync_response>>

login_vars == <<_is_logged_in, _page, page_at, gm_pc, gm_try>>

collector_vars == <<col_fn, col_urls, col_names, col_pc, col_ret, anchors_read, page_items>>

naming_vars == <<nm_fn, nm_courses, now, artifacts>>

transform_vars == <<tf_fn, raw_file, raw_exists, tf_io, tf_pc, tf_df, csv_file, md_file, tf_ret>>

partition_vars == <<part_data, part_W, course_batches, part_pc>>

parallel_vars == <<course_tuples, pw_pc, pw_result, attempt, _results_lock, shared_results>>

wait_vars == <<wait_fn, csv_size, writing, wait_pc, prev_size, size_checks, polls, wait_ret>>

modal_vars == <<modal_fn, modal_present, has_primary, has_close, modal_pc, tried, closed,
               dismissed, modal_queue>>

download_vars == <<dl_batches, workers, prefs, disk, pending, dl_pc, dl_pos, initial_files,
                   picked, dl_run>>

fast_vars == <<fast_pc, fast_result>>

backend_vars == <<courses, seq_results, dg_pc, result, is_logged_in, login_attempts>>

main_vars == <<course_data, MAX_WORKERS, batches, opc, collected, all_results, wpc, pos,
               results, browser, download_dir, future, sm_outcome, sm_run, escaped,
               login_failed, _all_course_results, _course_ids, _course_csv_files,
               _failed_course_ids, export_data, json_file>>

\* what an action of one program leaves alone: the state of the other programs
not_main_vars == <<socket_vars, sync_vars, login_vars, collector_vars, naming_vars, transform_vars, modal_vars, wait_vars, parallel_vars, fast_vars, backend_vars, download_vars, partition_vars>>

not_fast_vars == <<socket_vars, sync_vars, login_vars, collector_vars, naming_vars, transform_vars, modal_vars, wait_vars, parallel_vars, main_vars, backend_vars, download_vars, partition_vars>>

not_backend_vars == <<socket_vars, sync_vars, login_vars, collector_vars, naming_vars, transform_vars, modal_vars, wait_vars, parallel_vars, main_vars, fast_vars, download_vars, partition_vars>>

not_download_vars == <<socket_vars, sync_vars, login_vars, collector_vars, naming_vars, transform_vars, modal_vars, wait_vars, parallel_vars, main_vars, fast_vars, backend_vars, partition_vars>>

not_partition_vars == <<socket_vars, sync_vars, login_vars, collector_vars, naming_vars, transform_vars, modal_vars, wait_vars, parallel_vars, main_vars, fast_vars, backend_vars, download_vars>>

not_parallel_vars == <<socket_vars, sync_vars, login_vars, collector_vars, naming_vars, transform_vars, modal_vars, wait_vars, main_vars, fast_vars, backend_vars, download_vars, partition_vars>>

not_wait_vars == <<socket_vars, sync_vars, login_vars, collector_vars, naming_vars, transform_vars, modal_vars, main_vars, fast_vars, backend_vars, download_vars, partition_vars,
                   parallel_vars>>

not_modal_vars == <<socket_vars, sync_vars, login_vars, collector_vars, naming_vars, transform_vars, main_vars, fast_vars, backend_vars, download_vars, partition_vars,
                    parallel_vars, wait_vars>>

not_transform_vars == <<socket_vars, sync_vars, login_vars, collector_vars, naming_vars, main_vars, fast_vars, backend_vars, download_vars, partition_vars,
                        parallel_vars, wait_vars, modal_vars>>

not_naming_vars == <<socket_vars, sync_vars, login_vars, collector_vars, main_vars, fast_vars, backend_vars, download_vars, 
    partition_vars, parallel_vars, wait_vars, modal_vars, transform_vars>>

not_collector_vars == <<socket_vars, sync_vars, login_vars, main_vars, fast_vars, backend_vars, download_vars, 
    partition_vars, parallel_vars, wait_vars, modal_vars, transform_vars, 
    naming_vars>>

not_login_vars == <<socket_vars, sync_vars, main_vars, fast_vars, backend_vars, download_vars, 
    partition_vars, parallel_vars, wait_vars, modal_vars, transform_vars, 
    naming_vars, collector_vars>>

not_sync_vars == <<socket_vars, main_vars, fast_vars, backend_vars, download_vars, 
    partition_vars, parallel_vars, wait_vars, modal_vars, transform_vars, 
    naming_vars, collector_vars, login_vars>>

not_socket_vars == <<main_vars, fast_vars, backend_vars, download_vars, 
    partition_vars, parallel_vars, wait_vars, modal_vars, transform_vars, 
    naming_vars, collector_vars, login_vars, sync_vars>>

None == "None"

IsEmpty(s) == s = None \/ s = ""

Max(a, b) == IF a >= b THEN a ELSE b

Min(a, b) == IF a <= b THEN a ELSE b

\* ------------------------------------------------------- CourseExportResult
CourseExportResult(course_id, success, csv_path, md_path, error) ==
    [course_id |-> course_id, success |-> success, csv_path |-> csv_path,
     md_path |-> md_path, error |-> error]

NoResult == CourseExportResult(0, FALSE, None, None, None)

Return(r) == [raised |-> FALSE, value |-> r, exc |-> ""]

Raise(msg) == [raised |-> TRUE, value |-> NoResult, exc |-> msg]

\* str(csv_output_path) / str(md_output_path) of process_downloaded_file
CsvPath(course_id) == "csv/GRADEBOOK_DATA_" \o ToString(course_id) \o ".csv"

MdPath(course_id) == "markdown/GRADEBOOK_DATA_" \o ToString(course_id) \o ".md"

\* ------------------------------------------------ the browser, as the code sees it
\* What each call of the per-course flow can do.  "True"/"False"/"None" are the
\* value the GradebookManager method returns, "raise" an exception its except
\* clauses do not catch (a click intercepted or a stale element where only
\* NoSuchElementException and TimeoutException are caught, a failing fallback).
Steps ==
    <<"get", "tab", "dropdown", "export_all", "modal", "refresh", "open_list",
      "links", "click", "download", "process">>

StepSet == {Steps[i] : i \in 1..Len(Steps)}

\* mutant: the flow goes on after a gradebook tab that could not be clicked
Continuing_TabFalse(s) ==
    CASE s = "get" -> {"ok"}
      [] s = "tab" -> {"True", "False"}
      [] s = "modal" -> {"True"}
      [] s = "links" -> {"link"}
      [] s = "click" -> {"clicked"}
      [] s = "download" -> {"file"}
      [] s = "process" -> {}
      [] OTHER -> {"True"}

\* the outcomes after which the flow goes on to the next step
Continuing(s) ==
    CASE s = "get" -> {"ok"}
      [] s = "modal" -> {"True"}
      [] s = "links" -> {"link"}
      [] s = "click" -> {"clicked"}
      [] s = "download" -> {"file"}
      [] s = "process" -> {}
      [] OTHER -> {"True"}

\* the outcomes that end the flow at this step
Terminal(s) ==
    CASE s = "get" -> {"raise"}
      [] s = "modal" -> {}
      [] s = "links" -> {"None", "raise"}
      [] s = "click" -> {"overlay_failed", "raise"}
      [] s = "download" -> {"None"}
      [] s = "process" -> {"True", "False"}
      [] OTHER -> {"False", "raise"}

Unreached == [s \in StepSet |-> "unreached"]

RECURSIVE Runs(_)
Runs(i) ==
    IF i > Len(Steps) THEN {}
    ELSE {[Unreached EXCEPT ![Steps[i]] = o] : o \in Terminal(Steps[i])}
         \cup {[r EXCEPT ![Steps[i]] = o] : o \in Continuing(Steps[i]), r \in Runs(i + 1)}

\* every way one course's UI flow can go, up to the step that ends it
UIBehaviours == Runs(1)

\* str(e) of the exceptions the browser raises
UIError == "Message: element click intercepted"

CreateError == "Message: session not created"

QuitError == "Message: chrome not reachable"

\* ------------------------------------------------------------ the transform
process_downloaded_file(course_id, io) ==
    IF io = "True"
    THEN [success |-> TRUE, csv_path |-> CsvPath(course_id), md_path |-> MdPath(course_id)]
    ELSE [success |-> FALSE, csv_path |-> "", md_path |-> ""]

\* ------------------------------------------------- the export state machine
Failed(course_id, error) == CourseExportResult(course_id, FALSE, None, None, error)

execute_gradebook_actions(course_id, ui) ==
    IF ui.get = "raise" THEN Raise(UIError)
    ELSE IF ui.tab = "raise" THEN Raise(UIError)
    ELSE IF ui.tab = "False"
    THEN Return(Failed(course_id, "Failed to click on the gradebook tab"))
    ELSE IF ui.dropdown = "raise" THEN Raise(UIError)
    ELSE IF ui.dropdown = "False"
    THEN Return(Failed(course_id, "Failed to open export dropdown"))
    ELSE IF ui.export_all = "raise" THEN Raise(UIError)
    ELSE IF ui.export_all = "False"
    THEN Return(Failed(course_id, "Failed to export all grades"))
    ELSE IF ui.refresh = "raise" THEN Raise(UIError)
    ELSE IF ui.refresh = "False"
    THEN Return(Failed(course_id, "Failed to refresh export list"))
    ELSE IF ui.open_list = "raise" THEN Raise(UIError)
    ELSE IF ui.open_list = "False"
    THEN Return(Failed(course_id, "Failed to open refresh list"))
    ELSE IF ui.links = "raise" THEN Raise(UIError)
    ELSE IF ui.links = "None"
    THEN Return(Failed(course_id, "Failed to find export links"))
    ELSE IF ui.click = "raise" THEN Raise(UIError)
    ELSE IF ui.click = "overlay_failed"
    THEN Return(Failed(course_id,
             "Element click intercepted and overlay could not be closed: "
                 \o UIError))
    ELSE IF ui.download = "None"
    THEN Return(Failed(course_id, "Download failed - CSV file not found after export"))
    ELSE LET t == process_downloaded_file(course_id, ui.process) IN
         IF t.success
         THEN Return(CourseExportResult(course_id, TRUE, t.csv_path, t.md_path, None))
         ELSE Return(Failed(course_id, "Failed to process downloaded file"))

\* ------------------------------------------------------------- partitioning
\* course_data[i : i + batch_size] for i in range(0, len(course_data), batch_size)
Chunks(data, batch_size) ==
    [k \in 1..((Len(data) + batch_size - 1) \div batch_size) |->
        SubSeq(data, (k - 1) * batch_size + 1, Min(k * batch_size, Len(data)))]

\* mutant: batches.pop() without batches[-2].extend(batches[-1])
RECURSIVE MergeExcess_PopOnly(_, _)
MergeExcess_PopOnly(bs, W) ==
    IF Len(bs) > W
    THEN MergeExcess_PopOnly(SubSeq(bs, 1, Len(bs) - 1), W)
    ELSE bs

\* while len(batches) > MAX_WORKERS: batches[-2].extend(batches[-1]); batches.pop()
RECURSIVE MergeExcess(_, _)
MergeExcess(bs, W) ==
    IF Len(bs) > W
    THEN MergeExcess(
             [SubSeq(bs, 1, Len(bs) - 1) EXCEPT ![Len(bs) - 1] = bs[Len(bs) - 1] \o bs[Len(bs)]],
             W)
    ELSE bs

\* mutant: one batch per course, whatever MAX_WORKERS is
Partition_PerCourse(data, W) == Chunks(data, 1)

\* lines 1044-1053: batch_size, the slices, the merge of the surplus slices
Partition(data, W) == MergeExcess(Chunks(data, Max(1, Len(data) \div W)), W)

Workers == 1..Len(batches)

\* mutant: the comprehension reports the first course of the batch every time
AllFailed_FirstCourse(batch, error) == [i \in 1..Len(batch) |-> Failed(batch[1], error)]

\* the comprehensions "for course_url, course_id, course_name in batches"
AllFailed(batch, error) == [i \in 1..Len(batch) |-> Failed(batch[i], error)]

NoPending == [kind |-> "none", value |-> <<>>, exc |-> ""]

NoReport == [kind |-> "none"]

\* a download wait that has not returned
NoReturn == [kind |-> "none"]

\* a process_single_course call that has not returned
NoOutcome == [course_id |-> 0, success |-> FALSE, csv_path |-> None, md_path |-> None,
              error |-> "pending"]

\* download_gradebook, lines 623-630: the result dict as first built
NewResult(course_id) ==
    [success |-> FALSE, course_id |-> course_id, csv_path |-> "", markdown_path |-> "",
     error |-> ""]

\* ------------------------------------------------------------------ Init
\* src/courses.py before process_courses runs on the collected courses
MainStart(data, W) ==
    /\ course_data = data
    /\ MAX_WORKERS = W
    /\ batches = <<>>
    /\ opc = "start"
    /\ collected = {}
    /\ all_results = <<>>
    /\ wpc = <<>>
    /\ pos = <<>>
    /\ results = <<>>
    /\ browser = <<>>
    /\ download_dir = <<>>
    /\ future = <<>>
    /\ sm_outcome = <<>>
    /\ sm_run = <<>>
    /\ escaped = {}
    /\ login_failed = {}
    /\ _all_course_results = <<>>
    /\ _course_ids = <<>>
    /\ _course_csv_files = <<>>
    /\ _failed_course_ids = <<>>
    /\ export_data = NoReport
    /\ json_file = NoReport

\* no process_single_course call exists
FastStart(ids) ==
    /\ fast_pc = [c \in ids |-> "start"]
    /\ fast_result = [c \in ids |-> NoOutcome]

\* GradebookManager.__init__ (lines 67-80), then _download_sequential(data)
BackendStart(data) ==
    /\ courses = data
    /\ seq_results = <<>>
    /\ dg_pc = IF data = <<>> THEN "idle" ELSE "start"
    /\ result = NewResult(IF data = <<>> THEN 0 ELSE data[1])
    /\ is_logged_in = FALSE
    /\ login_attempts = 0

CourseLists == {[i \in 1..n |-> i] : n \in 1..MaxTasks}

\* the directories downloads can be written to
DATA_DIR == "data"

WorkerDir(worker_id) == DATA_DIR \o "/worker_" \o ToString(worker_id - 1) \o "_downloads"

\* the workers of bs have no browser yet and every directory is empty
DownloadStart(bs) ==
    /\ dl_batches = bs
    /\ workers = [w \in 1..Len(bs) |-> ""]
    /\ prefs = [w \in 1..Len(bs) |-> ""]
    /\ disk = [d \in {DATA_DIR} \cup {WorkerDir(w) : w \in 1..Len(bs)} |-> <<>>]
    /\ pending = [w \in 1..Len(bs) |-> {}]
    /\ dl_pc = [w \in 1..Len(bs) |-> "start"]
    /\ dl_pos = [w \in 1..Len(bs) |-> 1]
    /\ initial_files = [w \in 1..Len(bs) |-> {}]
    /\ picked = {}
    /\ dl_run = 1

MainIdle == MainStart(<<>>, 1)

FastIdle == FastStart({})

BackendIdle == BackendStart(<<>>)

DownloadIdle == DownloadStart(<<>>)

PartitionStart(data, W) ==
    /\ part_data = data
    /\ part_W = W
    /\ course_batches = <<>>
    /\ part_pc = "split"

\* lines 642-650: every worker starts with a result whose status is "failed"
ParallelStart(data) ==
    /\ course_tuples = data
    /\ pw_pc = [t \in 1..Len(data) |-> "start"]
    /\ pw_result = [t \in 1..Len(data) |->
                       [course_id |-> data[t], processing_status |-> "failed", error |-> None]]
    /\ attempt = [t \in 1..Len(data) |-> 0]
    /\ _results_lock = 0
    /\ shared_results = <<>>

ParallelIdle == ParallelStart(<<>>)

\* the export link has been clicked and fn starts to wait; the directory holds
\* no csv yet (initial_files is taken before the browser writes it)
WaitStart(fn, pc) ==
    /\ wait_fn = fn
    /\ csv_size = -1
    /\ writing = TRUE
    /\ wait_pc = pc
    /\ prev_size = 0
    /\ size_checks = 0
    /\ polls = 0
    /\ wait_ret = NoReturn

WaitIdle == WaitStart("none", "idle")

\* the export has been triggered and fn is called, on a page as given
ModalStart(fn, present, primary, close, pc, queue) ==
    /\ modal_fn = fn
    /\ modal_present = present
    /\ has_primary = primary
    /\ has_close = close
    /\ modal_pc = pc
    /\ tried = <<>>
    /\ closed = FALSE
    /\ dismissed = FALSE
    /\ modal_queue = queue

ModalIdle == ModalStart("none", FALSE, FALSE, FALSE, "idle", <<>>)

\* the transform before it starts on fn with the raw download raw and the fault io
TransformStart(fn, raw, io, pc) ==
    /\ tf_fn = fn
    /\ raw_file = raw
    /\ raw_exists = (raw.kind # "missing")
    /\ tf_io = io
    /\ tf_pc = pc
    /\ tf_df = <<>>
    /\ csv_file = <<>>
    /\ md_file = <<>>
    /\ tf_ret = NoReturn

\* no download at the path, and a file pandas cannot parse (no header line)
MissingFile == [kind |-> "missing", meta |-> FALSE, students |-> <<>>]

MalformedFile == [kind |-> "malformed", meta |-> FALSE, students |-> <<>>]

TransformIdle == TransformStart("none", MissingFile, "ok", "idle")

\* the artifact naming before the run of program fn over the courses named names
NamingStart(fn, names) ==
    /\ nm_fn = fn
    /\ nm_courses = names
    /\ now = 0
    /\ artifacts = <<>>

NamingIdle == NamingStart("none", <<>>)

\* the course collector before function fn starts on the first page
CollectorStart(fn, pc) ==
    /\ col_fn = fn
    /\ col_urls = <<>>
    /\ col_names = <<>>
    /\ col_pc = pc
    /\ col_ret = NoReturn
    /\ anchors_read = {}
    /\ page_items = <<>>

CollectorIdle == CollectorStart("none", "idle")

\* The courses handed to _download_parallel, one worker context each.
BulkCourses == {1, 2, 3}

\* The bulk download is not running: no worker context exists.
LoginIdle ==
    /\ _is_logged_in = FALSE
    /\ _page = 0
    /\ page_at = [m \in BulkCourses |-> "blank"]
    /\ gm_pc = [m \in BulkCourses |-> "none"]
    /\ gm_try = [m \in BulkCourses |-> 1]

\* The requests to POST /sync that arrive during one observation.
SyncRequests == {1, 2, 3}

\* No sync was ever requested.
SyncIdle ==
    /\ sync_status = <<>>
    /\ background_tasks = <<>>
    /\ sync_response = [r \in SyncRequests |-> <<>>]

\* The longest list of sessions kept for one user.
MaxSessions == 2

\* The session ids the server hands out (each to one connection) and the
\* users of table users.
Sids == {1, 2}

UserIds == {"a", "b"}

\* No socket ever connected.
SocketIdle ==
    /\ SESSION_POOL = <<>>
    /\ USER_POOL = <<>>
    /\ sio_state = [sid \in Sids |-> "new"]

PartitionIdle ==
    /\ part_data = <<>>
    /\ part_W = 1
    /\ course_batches = <<>>
    /\ part_pc = "idle"

Init ==
    /\ SocketIdle
    /\ SyncIdle
    /\ LoginIdle
    /\ CollectorIdle
    /\ NamingIdle
    /\ \E data \in CourseLists, W \in 1..MaxWorkers : MainStart(data, W)
    /\ FastIdle
    /\ BackendIdle
    /\ DownloadIdle
    /\ PartitionIdle
    /\ ParallelIdle
    /\ WaitIdle
    /\ ModalIdle
    /\ TransformIdle

orch_vars == <<opc, collected, all_results>>

global_vars == <<_all_course_results, _course_ids, _course_csv_files, _failed_course_ids>>

report_vars == <<export_data, json_file>>

input_vars == <<course_data, MAX_WORKERS, batches>>

history_vars == <<sm_outcome, sm_run, escaped, login_failed>>

\* ---------------------------------------------------- process_courses: submit
\* lines 1044-1065: partition, then one executor.submit per batch
Submit ==
    /\ UNCHANGED not_main_vars
    /\ opc = "start"
    /\ LET bs == Partition(course_data, MAX_WORKERS) IN
       /\ batches' = bs
       /\ wpc' = [w \in 1..Len(bs) |-> "queued"]
       /\ pos' = [w \in 1..Len(bs) |-> 1]
       /\ results' = [w \in 1..Len(bs) |-> <<>>]
       /\ browser' = [w \in 1..Len(bs) |-> "None"]
       /\ download_dir' = [w \in 1..Len(bs) |-> "absent"]
       /\ future' = [w \in 1..Len(bs) |-> NoPending]
    /\ opc' = "collect"
    /\ UNCHANGED <<course_data, MAX_WORKERS, collected, all_results, history_vars,
                   global_vars, report_vars>>

\* ------------------------------------------------------ worker_handle_course
\* lines 989-1007: the finally clause, then the return of value.
\* An exception raised by browser.quit() leaves the finally clause at once: the
\* download directory is not removed and the exception replaces the value that
\* was being returned.
Leave(w, value, session) ==
    /\ \E q \in (IF session = "open" THEN {"ok", "raise"} ELSE {"skip"}) :
          IF q = "raise"
          THEN /\ browser' = [browser EXCEPT ![w] = "quit_failed"]
               /\ download_dir' = [download_dir EXCEPT ![w] = "present"]
               /\ future' = [future EXCEPT ![w] =
                                [kind |-> "raise", value |-> <<>>, exc |-> QuitError]]
          ELSE /\ browser' = [browser EXCEPT ![w] = IF q = "ok" THEN "closed" ELSE "None"]
               /\ download_dir' = [download_dir EXCEPT ![w] = "absent"]
               /\ future' = [future EXCEPT ![w] =
                                [kind |-> "return", value |-> value, exc |-> ""]]
    /\ wpc' = [wpc EXCEPT ![w] = "done"]

\* mutant: the except clause returns the results gathered so far
Except_KeepResults(w, msg, session) ==
    /\ results' = results
    /\ Leave(w, results[w], session)

\* lines 973-987: the except clause: every course of the batch is reported failed
\* with str(e), whatever results held
Except(w, msg, session) ==
    /\ results' = [results EXCEPT ![w] = AllFailed(batches[w], msg)]
    /\ Leave(w, AllFailed(batches[w], msg), session)

\* lines 947-963: create_browser(worker_id), then login(browser)
StartWorker(w) ==
    /\ UNCHANGED not_main_vars
    /\ wpc[w] = "queued"
    /\ \E o \in {"create_raise", "True", "False", "login_raise"} :
          CASE o = "create_raise" ->
                 /\ Except(w, CreateError, "None")
                 /\ UNCHANGED login_failed
            [] o = "True" ->
                 /\ browser' = [browser EXCEPT ![w] = "open"]
                 /\ download_dir' = [download_dir EXCEPT ![w] = "present"]
                 /\ wpc' = [wpc EXCEPT ![w] = "courses"]
                 /\ UNCHANGED <<results, future, login_failed>>
            [] o = "False" ->
                 /\ Leave(w, AllFailed(batches[w], "Login failed"), "open")
                 /\ login_failed' = login_failed \cup {w}
                 /\ UNCHANGED results
            [] o = "login_raise" ->
                 /\ Except(w, UIError, "open")
                 /\ UNCHANGED login_failed
    /\ UNCHANGED <<input_vars, orch_vars, pos, sm_outcome, sm_run, escaped, global_vars,
                   report_vars>>

\* mutant: the iteration takes the last course of the batch
CurrentCourse_Last(w) == batches[w][Len(batches[w])]

\* line 965: the course the for statement has reached
CurrentCourse(w) == batches[w][pos[w]]

\* lines 965-972: one iteration of "for course_url, course_id, course_name in batches"
ProcessCourse(w) ==
    /\ UNCHANGED not_main_vars
    /\ wpc[w] = "courses"
    /\ pos[w] <= Len(batches[w])
    /\ \E ui \in UIBehaviours :
          LET c == CurrentCourse(w)
              r == execute_gradebook_actions(c, ui)
          IN IF r.raised
             THEN /\ Except(w, r.exc, "open")
                  /\ escaped' = escaped \cup {c}
                  /\ UNCHANGED <<pos, sm_outcome, sm_run>>
             ELSE /\ results' = [results EXCEPT ![w] = Append(@, r.value)]
                  /\ sm_outcome' = sm_outcome @@ (c :> r.value)
                  /\ sm_run' = sm_run @@ (c :> ui)
                  /\ pos' = [pos EXCEPT ![w] = @ + 1]
                  /\ IF pos[w] = Len(batches[w])
                     THEN Leave(w, Append(results[w], r.value), "open")
                     ELSE UNCHANGED <<wpc, browser, download_dir, future>>
                  /\ UNCHANGED escaped
    /\ UNCHANGED <<input_vars, orch_vars, login_failed, global_vars, report_vars>>

\* -------------------------------------------------- process_courses: collect
\* lines 1087-1100: the error results of a worker whose future raised
WorkerFailed(w, exc) ==
    AllFailed(batches[w], "Worker " \o ToString(w - 1) \o " failed: " \o exc)

\* lines 1071-1100: one iteration of "for future in as_completed(...)"
Collect(w) ==
    /\ UNCHANGED not_main_vars
    /\ opc = "collect"
    /\ w \notin collected
    /\ future[w].kind # "none"
    /\ collected' = collected \cup {w}
    /\ all_results' = all_results \o
           (IF future[w].kind = "return" THEN future[w].value
            ELSE WorkerFailed(w, future[w].exc))
    /\ UNCHANGED <<input_vars, opc, wpc, pos, results, browser, download_dir,
                   future, history_vars, global_vars, report_vars>>

\* line 1071: as_completed(..., timeout=3600) raises TimeoutError while a worker
\* is still running; leaving the with block then waits for the workers
AsCompletedTimeout ==
    /\ UNCHANGED not_main_vars
    /\ opc = "collect"
    /\ \E w \in Workers : future[w].kind = "none"
    /\ opc' = "shutdown"
    /\ UNCHANGED <<input_vars, collected, all_results, wpc, pos, results, browser,
                   download_dir, future, history_vars, global_vars, report_vars>>

\* cleanup_temp_download_dirs: every worker_*_downloads directory is removed
cleanup_system_resources == [w \in Workers |-> "absent"]

\* lines 1104-1108: except Exception: cleanup_system_resources(); raise
CriticalError ==
    /\ UNCHANGED not_main_vars
    /\ opc = "shutdown"
    /\ \A w \in Workers : wpc[w] = "done"
    /\ download_dir' = cleanup_system_resources
    /\ opc' = "raised"
    /\ UNCHANGED <<input_vars, collected, all_results, wpc, pos, results, browser,
                   future, history_vars, global_vars, report_vars>>

\* ------------------------------------------------ process_courses: aggregate
\* the packed strings f"CSV: {csv} | MD: {md}" and f"FAILED: {error}", by token
CsvFileEntry(r) ==
    IF r.success THEN <<"CSV: ", r.csv_path, " | ", "MD: ", r.md_path>>
    ELSE <<"FAILED: ", r.error>>

\* lines 1114-1145: with _results_lock: for result in all_results: ...
Aggregate ==
    /\ UNCHANGED not_main_vars
    /\ opc = "collect"
    /\ collected = Workers
    /\ _all_course_results' = _all_course_results \o all_results
    /\ _course_ids' = _course_ids \o [i \in 1..Len(all_results) |-> all_results[i].course_id]
    /\ _course_csv_files' =
           _course_csv_files \o [i \in 1..Len(all_results) |-> CsvFileEntry(all_results[i])]
    /\ _failed_course_ids' =
           _failed_course_ids \o
           LET failed == SelectSeq(all_results, LAMBDA r : ~r.success)
           IN [i \in 1..Len(failed) |-> failed[i].course_id]
    /\ opc' = "aggregated"
    /\ UNCHANGED <<input_vars, collected, all_results, wpc, pos, results, browser,
                   download_dir, future, history_vars, report_vars>>

\* ------------------------------------------------- save_courses_data_to_json
\* lines 416-448: the course_entry of one complete result
CourseEntry(r) ==
    IF r.success
    THEN [course_id |-> r.course_id, success |-> TRUE, processing_status |-> "success",
          csv_file_path |-> r.csv_path, markdown_file_path |-> r.md_path,
          error_message |-> None]
    ELSE [course_id |-> r.course_id, success |-> FALSE, processing_status |-> "failed",
          csv_file_path |-> None, markdown_file_path |-> None,
          error_message |-> r.error]

\* lines 456-501: the course_entry rebuilt from the packed string (fallback)
FallbackEntry(course_id, file_info) ==
    IF Len(file_info) > 0 /\ file_info[1] = "FAILED: "
    THEN [course_id |-> course_id, success |-> FALSE, processing_status |-> "failed",
          csv_file_path |-> None, markdown_file_path |-> None,
          error_message |-> file_info[2]]
    ELSE [course_id |-> course_id, success |-> TRUE, processing_status |-> "success",
          csv_file_path |-> IF Len(file_info) >= 3 THEN file_info[2] ELSE "",
          markdown_file_path |-> IF Len(file_info) >= 5 THEN file_info[5] ELSE "",
          error_message |-> None]

\* lines 399-501: the course_data list of the summary
SummaryCourses(all, ids, files) ==
    IF Len(all) > 0
    THEN [i \in 1..Len(all) |-> CourseEntry(all[i])]
    ELSE [i \in 1..Len(ids) |->
             FallbackEntry(ids[i], IF i <= Len(files) THEN files[i] ELSE <<>>)]

CountWhere(seq, Test(_)) == Cardinality({i \in 1..Len(seq) : Test(seq[i])})

\* mutant: failed_course_details reads a key the entries do not have
ExportData_UnknownError(entries) ==
    [kind |-> "full",
     summary |-> [total_courses_found |-> Len(entries),
                  successful_exports |-> CountWhere(entries, LAMBDA c : c.success),
                  failed_exports |-> CountWhere(entries, LAMBDA c : ~c.success)],
     courses |-> entries,
     failed_course_details |->
         LET failed == SelectSeq(entries, LAMBDA c : ~c.success)
         IN [i \in 1..Len(failed) |->
                [course_id |-> failed[i].course_id, error |-> "Unknown error"]]]

\* lines 503-528: processing_summary and export_data
ExportData(entries) ==
    [kind |-> "full",
     summary |-> [total_courses_found |-> Len(entries),
                  successful_exports |-> CountWhere(entries, LAMBDA c : c.success),
                  failed_exports |-> CountWhere(entries, LAMBDA c : ~c.success)],
     courses |-> entries,
     failed_course_details |->
         LET failed == SelectSeq(entries, LAMBDA c : ~c.success)
         IN [i \in 1..Len(failed) |->
                [course_id |-> failed[i].course_id, error |-> failed[i].error_message]]]

\* lines 554-560: basic_summary, written when saving the full summary failed
BasicSummary(data) ==
    [kind |-> "basic",
     total_courses |-> Len(data.courses),
     successful |-> data.summary.successful_exports,
     failed |-> data.summary.failed_exports]

\* lines 530-566: what is on disk afterwards.  write is how the try block went
\* (json.dump failed, or the CSV summary failed after the JSON was written),
\* basic how the write of the basic summary went.
Persist(old, data, write, basic) ==
    CASE write = "ok" -> data
      [] write = "json_fail" /\ basic = "ok" -> BasicSummary(data)
      [] write = "json_fail" /\ basic = "fail" -> old
      [] write = "csv_fail" /\ basic = "ok" -> BasicSummary(data)
      [] write = "csv_fail" /\ basic = "fail" -> data

\* lines 1188-1193: save_courses_data_to_json(); cleanup_system_resources()
Save ==
    /\ UNCHANGED not_main_vars
    /\ opc = "aggregated"
    /\ LET data == ExportData(SummaryCourses(_all_course_results, _course_ids,
                                             _course_csv_files))
       IN /\ export_data' = data
          /\ \E write \in {"ok", "json_fail", "csv_fail"}, basic \in {"ok", "fail"} :
                json_file' = Persist(json_file, data, write, basic)
    /\ download_dir' = cleanup_system_resources
    /\ opc' = "completed"
    /\ UNCHANGED <<input_vars, collected, all_results, wpc, pos, results, browser,
                   future, history_vars, global_vars>>

\* lines 1321-1330: signal_handler, registered for SIGINT and SIGTERM, runs in the
\* main thread: emergency_cleanup() terminates the automation's Chrome processes
\* (the workers' later steps then fail, which ProcessCourse already allows) and
\* exit(1) raises SystemExit, which "except Exception" (line 1104) does not catch;
\* leaving the with block waits for the running workers, nothing is saved
signal_handler ==
    /\ UNCHANGED not_main_vars
    /\ opc \in {"collect", "aggregated"}
    /\ opc' = "exited"
    /\ UNCHANGED <<input_vars, collected, all_results, wpc, pos, results, browser,
                   download_dir, future, history_vars, global_vars, report_vars>>

\* ------------------------------------------------------------------- Next
Next ==
    \/ Submit
    \/ \E w \in Workers : StartWorker(w)
    \/ \E w \in Workers : ProcessCourse(w)
    \/ \E w \in Workers : Collect(w)
    \/ AsCompletedTimeout
    \/ CriticalError
    \/ Aggregate
    \/ Save
    \/ signal_handler

Spec == Init /\ [][Next]_vars

\* ======================================================================
\* src/course_export_optimized.py: process_single_course
\* ======================================================================
FastCourses == DOMAIN fast_pc

\* the dicts process_single_course and execute_gradebook_actions_fast return
FastResult(course_id, success, csv_path, md_path, error) ==
    [course_id |-> course_id, success |-> success, csv_path |-> csv_path,
     md_path |-> md_path, error |-> error]

\* lines 928-960: io says whether writing the markdown file works
create_markdown_export(course_id, io) ==
    IF io = "ok" THEN <<TRUE, MdPath(course_id)>> ELSE <<FALSE, "">>

\* lines 1102-1153: io is what the file system does: the download is "missing",
\* reading or rewriting it fails ("read_fail"), only the markdown export fails
\* ("md_fail"), or all works ("ok")
add_course_id_to_csv(course_id, io) ==
    IF io = "missing" THEN <<FALSE, "", "">>
    ELSE IF io = "read_fail" THEN <<FALSE, "", "">>
    ELSE LET md == create_markdown_export(course_id, IF io = "md_fail" THEN "fail" ELSE "ok")
         IN IF md[1] THEN <<TRUE, CsvPath(course_id), md[2]>>
                     ELSE <<TRUE, CsvPath(course_id), "">>

FileIO == {"missing", "read_fail", "md_fail", "ok"}

\* what the page and the download directory do during the fast flow: a wait or a
\* click raises, the link list is empty, wait_for_download_fast times out, or a
\* new csv file is seen
FastUI == {"exception", "no_links", "no_download", "downloaded"}

\* lines 1439-1538
execute_gradebook_actions_fast(course_id, ui, io) ==
    IF ui = "exception" THEN FastResult(course_id, FALSE, "", "", UIError)
    ELSE IF ui = "downloaded"
    THEN LET t == add_course_id_to_csv(course_id, io)
         IN FastResult(course_id, t[1], t[2], t[3], None)
    ELSE FastResult(course_id, FALSE, "", "", "No export links found or download failed")

\* line 1398: create_optimized_browser() is called before the try statement
FastCreateBrowser(c) ==
    /\ fast_pc[c] = "start"
    /\ \E ok \in BOOLEAN :
          fast_pc' = [fast_pc EXCEPT ![c] = IF ok THEN "login" ELSE "raised"]
    /\ UNCHANGED <<fast_result, not_fast_vars>>

\* lines 1404-1414: fast_login catches every exception and returns False
FastLogin(c) ==
    /\ fast_pc[c] = "login"
    /\ \E ok \in BOOLEAN :
          IF ok
          THEN /\ fast_pc' = [fast_pc EXCEPT ![c] = "navigate"]
               /\ UNCHANGED fast_result
          ELSE /\ fast_pc' = [fast_pc EXCEPT ![c] = "finally"]
               /\ fast_result' = [fast_result EXCEPT ![c] =
                                     FastResult(c, FALSE, "", "", "Login failed")]
    /\ UNCHANGED <<not_fast_vars>>

\* line 1417, and the except clause of lines 1425-1434 when browser.get raises
FastNavigate(c) ==
    /\ fast_pc[c] = "navigate"
    /\ \E ok \in BOOLEAN :
          IF ok
          THEN /\ fast_pc' = [fast_pc EXCEPT ![c] = "actions"]
               /\ UNCHANGED fast_result
          ELSE /\ fast_pc' = [fast_pc EXCEPT ![c] = "finally"]
               /\ fast_result' = [fast_result EXCEPT ![c] =
                                     FastResult(c, FALSE, "", "", UIError)]
    /\ UNCHANGED <<not_fast_vars>>

\* lines 1420-1423
FastActions(c) ==
    /\ fast_pc[c] = "actions"
    /\ \E ui \in FastUI, io \in FileIO :
          fast_result' = [fast_result EXCEPT ![c] = execute_gradebook_actions_fast(c, ui, io)]
    /\ fast_pc' = [fast_pc EXCEPT ![c] = "finally"]
    /\ UNCHANGED <<not_fast_vars>>

\* lines 1435-1436: the finally clause; an exception of browser.quit() replaces
\* the value being returned
FastQuit(c) ==
    /\ fast_pc[c] = "finally"
    /\ \E ok \in BOOLEAN :
          IF ok
          THEN /\ fast_pc' = [fast_pc EXCEPT ![c] = "returned"]
               /\ UNCHANGED fast_result
          ELSE /\ fast_pc' = [fast_pc EXCEPT ![c] = "raised"]
               /\ fast_result' = [fast_result EXCEPT ![c] = NoOutcome]
    /\ UNCHANGED <<not_fast_vars>>

InitFast ==
    /\ SocketIdle
    /\ SyncIdle
    /\ LoginIdle
    /\ CollectorIdle
    /\ NamingIdle
    /\ MainIdle
    /\ BackendIdle
    /\ DownloadIdle
    /\ PartitionIdle
    /\ ParallelIdle
    /\ WaitIdle
    /\ ModalIdle
    /\ TransformIdle
    /\ \E n \in 1..MaxTasks : FastStart(1..n)

NextFast ==
    \/ \E c \in FastCourses : FastCreateBrowser(c)
    \/ \E c \in FastCourses : FastLogin(c)
    \/ \E c \in FastCourses : FastNavigate(c)
    \/ \E c \in FastCourses : FastActions(c)
    \/ \E c \in FastCourses : FastQuit(c)

SpecFast == InitFast /\ [][NextFast]_vars

\* ======================================================================
\* src/backend/app/utils/course_gradebook.py: GradebookManager
\* ======================================================================
\* GRADEBOOK_CSV_DIR / new_filename and GRADEBOOK_MD_DIR / md_filename
GradebookCsvPath(course_id) == "gradebooks/csv/course_" \o ToString(course_id) \o ".csv"

GradebookMdPath(course_id) == "gradebooks/markdown/course_" \o ToString(course_id) \o ".md"

\* lines 320-351
GradebookManager_create_markdown_export(course_id, io) ==
    IF io = "ok" THEN <<TRUE, GradebookMdPath(course_id)>> ELSE <<FALSE, "">>

\* mutant: the branch for a failed markdown export returns no csv path either
process_csv_file_NoCsvPath(course_id, io) ==
    IF io = "missing" THEN <<FALSE, "", "">>
    ELSE IF io = "read_fail" THEN <<FALSE, "", "">>
    ELSE LET md == GradebookManager_create_markdown_export(
                       course_id, IF io = "md_fail" THEN "fail" ELSE "ok")
         IN IF md[1] THEN <<TRUE, GradebookCsvPath(course_id), md[2]>>
                     ELSE <<TRUE, "", "">>

\* lines 443-608, io as for add_course_id_to_csv
process_csv_file(course_id, io) ==
    IF io = "missing" THEN <<FALSE, "", "">>
    ELSE IF io = "read_fail" THEN <<FALSE, "", "">>
    ELSE LET md == GradebookManager_create_markdown_export(
                       course_id, IF io = "md_fail" THEN "fail" ELSE "ok")
         IN IF md[1] THEN <<TRUE, GradebookCsvPath(course_id), md[2]>>
                     ELSE <<TRUE, GradebookCsvPath(course_id), "">>

\* what the page does during _execute_gradebook_export: each way the export
\* workflow ends without a saved download, or the download is "saved"
ExportUI == {"no_export_button", "no_dropdown", "open_failed", "no_links",
             "download_timeout", "download_error", "exception", "saved"}

\* lines 674-847: every failure, exceptions included, returns (False, "", "")
_execute_gradebook_export(course_id, ui, io) ==
    IF ui = "saved"
    THEN LET t == process_csv_file(course_id, io)
         IN IF t[1] THEN <<TRUE, t[2], t[3]>> ELSE <<FALSE, "", "">>
    ELSE <<FALSE, "", "">>

\* lines 235-247 with check_login_status and perform_login (118-233): both catch
\* every exception and leave is_logged_in equal to what they return
ensure_logged_in(ok) == is_logged_in' = ok

\* lines 242-247: perform_login() is called unless is_logged_in is set and
\* check_login_status() returns True, in which case ensure_logged_in returns True
perform_login_called(ok) ==
    \E checked \in (IF is_logged_in THEN BOOLEAN ELSE {FALSE}) :
        /\ checked => ok
        /\ login_attempts' = login_attempts + (IF checked THEN 0 ELSE 1)

\* lines 635-638
EnsureLoggedIn ==
    /\ dg_pc = "start"
    /\ \E ok \in BOOLEAN :
          /\ ensure_logged_in(ok)
          /\ perform_login_called(ok)
          /\ IF ok
             THEN dg_pc' = "navigate" /\ UNCHANGED result
             ELSE /\ result' = [result EXCEPT !.error = "Login failed"]
                  /\ dg_pc' = "return"
    /\ UNCHANGED <<courses, seq_results, not_backend_vars>>

\* lines 250-283: True, False after a redirect to the login page (is_logged_in is
\* reset), or False after an exception
NavigationOutcomes == {"ok", "redirected", "error"}

navigate_to_course(o) ==
    is_logged_in' = IF o = "redirected" THEN FALSE ELSE is_logged_in

\* line 641
NavigateToCourse ==
    /\ dg_pc = "navigate"
    /\ \E o \in NavigationOutcomes :
          /\ navigate_to_course(o)
          /\ dg_pc' = IF o = "ok" THEN "export" ELSE "relogin"
    /\ UNCHANGED <<courses, seq_results, result, login_attempts, not_backend_vars>>

\* lines 643-645
ReLogin ==
    /\ dg_pc = "relogin"
    /\ \E ok \in BOOLEAN :
          /\ ensure_logged_in(ok)
          /\ perform_login_called(ok)
          /\ IF ok
             THEN dg_pc' = "renavigate" /\ UNCHANGED result
             ELSE /\ result' = [result EXCEPT
                                   !.error = "Failed to navigate to course after login"]
                  /\ dg_pc' = "return"
    /\ UNCHANGED <<courses, seq_results, not_backend_vars>>

\* lines 647-650
RetryNavigate ==
    /\ dg_pc = "renavigate"
    /\ \E o \in NavigationOutcomes :
          /\ navigate_to_course(o)
          /\ IF o = "ok"
             THEN dg_pc' = "export" /\ UNCHANGED result
             ELSE /\ result' = [result EXCEPT !.error = "Failed to navigate to course"]
                  /\ dg_pc' = "return"
    /\ UNCHANGED <<courses, seq_results, login_attempts, not_backend_vars>>

\* lines 652-662
ExecuteGradebookExport ==
    /\ dg_pc = "export"
    /\ \E ui \in ExportUI, io \in FileIO :
          LET t == _execute_gradebook_export(result.course_id, ui, io)
          IN result' = IF t[1]
                       THEN [result EXCEPT !.success = TRUE, !.csv_path = t[2],
                                           !.markdown_path = t[3]]
                       ELSE [result EXCEPT !.error = "Gradebook export failed"]
    /\ dg_pc' = "return"
    /\ UNCHANGED <<courses, seq_results, is_logged_in, login_attempts, not_backend_vars>>

\* line 672, and _download_sequential lines 1006-1013: append, then the next course
ReturnResult ==
    /\ dg_pc = "return"
    /\ seq_results' = Append(seq_results, result)
    /\ IF Len(seq_results) + 1 < Len(courses)
       THEN /\ dg_pc' = "start"
            /\ result' = NewResult(courses[Len(seq_results) + 2])
            /\ login_attempts' = 0
       ELSE /\ dg_pc' = "done"
            /\ UNCHANGED <<result, login_attempts>>
    /\ UNCHANGED <<courses, is_logged_in, not_backend_vars>>

InitBackend ==
    /\ SocketIdle
    /\ SyncIdle
    /\ LoginIdle
    /\ CollectorIdle
    /\ NamingIdle
    /\ MainIdle
    /\ FastIdle
    /\ DownloadIdle
    /\ PartitionIdle
    /\ ParallelIdle
    /\ WaitIdle
    /\ ModalIdle
    /\ TransformIdle
    /\ \E data \in CourseLists : BackendStart(data)

NextBackend ==
    \/ EnsureLoggedIn
    \/ NavigateToCourse
    \/ ReLogin
    \/ RetryNavigate
    \/ ExecuteGradebookExport
    \/ ReturnResult

SpecBackend == InitBackend /\ [][NextBackend]_vars

\* ======================================================================
\* src/courses.py: the download directories of the workers
\* SpecDownload follows worker_handle_course through the files its browser
\* writes and its download wait reads; the UI steps before the click of the
\* export link are one outcome.
\* ======================================================================
DlWorkers == 1..Len(dl_batches)

\* the csv file the browser of worker `by` writes for the export click of `course`,
\* in the run of process_courses that browser belongs to
DownloadedFile(course, by) == [course |-> course, by |-> by, run |-> dl_run]

\* os.listdir
listdir(d) == {disk[d][i] : i \in 1..Len(disk[d])}

\* lines 130-134
add_worker(worker_id) ==
    IF workers[worker_id] = "" THEN [workers EXCEPT ![worker_id] = WorkerDir(worker_id)]
    ELSE workers

\* lines 201-252 and 947-963: add_worker and mkdir come first; creating Chrome
\* may raise; the browser downloads to workers[worker_id]["download_dir"];
\* login may fail
DlCreateBrowser(w) ==
    /\ dl_pc[w] = "start"
    /\ workers' = add_worker(w)
    /\ \E o \in {"create_raise", "login_failed", "ok"} :
          /\ prefs' = [prefs EXCEPT ![w] = IF o = "create_raise" THEN "" ELSE workers'[w]]
          /\ dl_pc' = [dl_pc EXCEPT ![w] = IF o = "ok" THEN "course" ELSE "finally"]
    /\ UNCHANGED <<dl_batches, disk, pending, dl_pos, initial_files, picked,
                   dl_run, not_download_vars>>

\* lines 965-972: the for loop goes to the next course, or ends
DlNextCourse(w) ==
    IF dl_pos[w] < Len(dl_batches[w])
    THEN /\ dl_pos' = [dl_pos EXCEPT ![w] = @ + 1]
         /\ dl_pc' = [dl_pc EXCEPT ![w] = "course"]
    ELSE /\ dl_pc' = [dl_pc EXCEPT ![w] = "finally"]
         /\ UNCHANGED dl_pos

\* lines 802-898: the flow up to the click of the export link. A step fails and a
\* failed outcome is returned ("no_click"), a step raises ("raise"), or the link
\* is clicked and the browser starts a download or does not
DlExportClick(w) ==
    /\ dl_pc[w] = "course"
    /\ \E o \in {"no_click", "raise", "click", "click_download"} :
          CASE o = "no_click" -> DlNextCourse(w) /\ UNCHANGED pending
            [] o = "raise" -> /\ dl_pc' = [dl_pc EXCEPT ![w] = "finally"]
                              /\ UNCHANGED <<dl_pos, pending>>
            [] o = "click" -> /\ dl_pc' = [dl_pc EXCEPT ![w] = "wait"]
                              /\ UNCHANGED <<dl_pos, pending>>
            [] o = "click_download" ->
                   /\ dl_pc' = [dl_pc EXCEPT ![w] = "wait"]
                   /\ pending' = [pending EXCEPT ![w] = @ \cup {dl_batches[w][dl_pos[w]]}]
                   /\ UNCHANGED dl_pos
    /\ UNCHANGED <<dl_batches, workers, prefs, disk, initial_files, picked,
                   dl_run, not_download_vars>>

\* the browser finishes a download it started: the file appears in its
\* download.default_directory, at any time while the browser is open
DlLand(w) ==
    /\ prefs[w] # ""
    /\ \E c \in pending[w] :
          /\ disk' = [disk EXCEPT ![prefs[w]] = Append(@, DownloadedFile(c, w))]
          /\ pending' = [pending EXCEPT ![w] = @ \ {c}]
    /\ UNCHANGED <<dl_batches, workers, prefs, dl_pc, dl_pos, initial_files, picked,
                   dl_run, not_download_vars>>

\* lines 711-716: wait_for_parallel_download is called after the click and
\* starts by listing the directory
DlSnapshot(w) ==
    /\ dl_pc[w] = "wait"
    /\ initial_files' = [initial_files EXCEPT ![w] = listdir(workers[w])]
    /\ dl_pc' = [dl_pc EXCEPT ![w] = "poll"]
    /\ UNCHANGED <<dl_batches, workers, prefs, disk, pending, dl_pos, picked,
                   dl_run, not_download_vars>>

\* mutant: every file of the directory counts as new
new_files_All(w) == disk[workers[w]]

\* lines 720-727: new_files, oldest first; the newest of them is the last
new_files(w) == SelectSeq(disk[workers[w]], LAMBDA f : f \notin initial_files[w])

\* lines 718-749 and 900-916: the wait returns the newest new csv file once it is
\* stable, and process_downloaded_file (752-787) unlinks it when it succeeds; or
\* the wait times out (no new file, or none that became stable)
DlPoll(w) ==
    /\ dl_pc[w] = "poll"
    /\ \/ /\ new_files(w) # <<>>
          /\ LET csv_filename == new_files(w)[Len(new_files(w))] IN
             /\ picked' = picked \cup {[worker |-> w,
                                        course |-> dl_batches[w][dl_pos[w]],
                                        file |-> csv_filename,
                                        run |-> dl_run]}
             /\ \E success \in BOOLEAN :
                   disk' = IF success
                           THEN [disk EXCEPT ![workers[w]] =
                                    SelectSeq(@, LAMBDA f : f # csv_filename)]
                           ELSE disk
       \/ UNCHANGED <<disk, picked>>
    /\ DlNextCourse(w)
    /\ UNCHANGED <<dl_batches, workers, prefs, pending, initial_files, dl_run, not_download_vars>>

\* lines 989-1005: browser.quit() when there is a browser, then rmtree of the
\* download directory; an exception of quit() skips the rmtree
DlFinally(w) ==
    /\ dl_pc[w] = "finally"
    /\ \E q \in (IF prefs[w] # "" THEN {"ok", "raise"} ELSE {"skip"}) :
          IF q = "raise"
          THEN UNCHANGED <<prefs, pending, disk>>
          ELSE /\ prefs' = [prefs EXCEPT ![w] = ""]
               /\ pending' = [pending EXCEPT ![w] = {}]
               /\ disk' = [disk EXCEPT ![workers[w]] = <<>>]
    /\ dl_pc' = [dl_pc EXCEPT ![w] = "done"]
    /\ UNCHANGED <<dl_batches, workers, dl_pos, initial_files, picked, dl_run, not_download_vars>>

\* the runs of process_courses the download directories are followed through:
\* a first run, and the run that exports its courses again
ExportRuns == {1, 2}

\* lines 1192-1193 and 1229-1293, then a new call of process_courses: the run
\* ends with cleanup_system_resources, which terminates the Chrome processes of
\* the workers and removes every worker_*_downloads directory, a failing rmtree
\* being logged and the directory left as it is (kept); the next run gives worker
\* w the same directory DATA_DIR/worker_<w>_downloads
DlRerun ==
    /\ \A w \in DlWorkers : dl_pc[w] = "done"
    /\ dl_run + 1 \in ExportRuns
    /\ \E kept \in SUBSET {WorkerDir(w) : w \in DlWorkers} :
          disk' = [d \in DOMAIN disk |-> IF d \in kept \/ d = DATA_DIR THEN disk[d] ELSE <<>>]
    /\ prefs' = [w \in DlWorkers |-> ""]
    /\ pending' = [w \in DlWorkers |-> {}]
    /\ dl_pc' = [w \in DlWorkers |-> "start"]
    /\ dl_pos' = [w \in DlWorkers |-> 1]
    /\ dl_run' = dl_run + 1
    /\ UNCHANGED <<dl_batches, workers, initial_files, picked, not_download_vars>>

InitDownload ==
    /\ SocketIdle
    /\ SyncIdle
    /\ LoginIdle
    /\ CollectorIdle
    /\ NamingIdle
    /\ MainIdle
    /\ FastIdle
    /\ BackendIdle
    /\ PartitionIdle
    /\ ParallelIdle
    /\ WaitIdle
    /\ ModalIdle
    /\ TransformIdle
    /\ \E data \in CourseLists, W \in 1..MaxWorkers : DownloadStart(Partition(data, W))

NextDownload ==
    \/ \E w \in DlWorkers : DlCreateBrowser(w)
    \/ \E w \in DlWorkers : DlExportClick(w)
    \/ \E w \in DlWorkers : DlLand(w)
    \/ \E w \in DlWorkers : DlSnapshot(w)
    \/ \E w \in DlWorkers : DlPoll(w)
    \/ \E w \in DlWorkers : DlFinally(w)
    \/ DlRerun

SpecDownload == InitDownload /\ [][NextDownload]_vars

\* ======================================================================
\* src/course_export_async.py: AsyncCourseExporter
\* SpecAsync follows process_all_courses through the files the browsers write
\* and the download waits read. Every course is a task with a browser of its
\* own; task t is worker t of the download variables, with the one-course
\* batch <<t>>. The global `workers` of courses.py is not used.
\* ======================================================================
\* line 67: the default of max_concurrent_courses, the size of the semaphore
max_concurrent_courses == 3

\* the tasks inside "async with semaphore"
InSemaphore == {t \in DlWorkers : dl_pc[t] \notin {"start", "done"}}

\* lines 334-339 and 88-124: the semaphore is acquired, then the thread creates
\* a driver whose download.default_directory is DATA_DIR; an exception of the
\* creation leaves the task
AsyncCreateDriver(t) ==
    /\ dl_pc[t] = "start"
    /\ Cardinality(InSemaphore) < max_concurrent_courses
    /\ \E ok \in BOOLEAN :
          /\ prefs' = [prefs EXCEPT ![t] = IF ok THEN DATA_DIR ELSE ""]
          /\ dl_pc' = [dl_pc EXCEPT ![t] = IF ok THEN "course" ELSE "done"]
    /\ UNCHANGED <<dl_batches, workers, disk, pending, dl_pos, initial_files, picked,
                   dl_run, not_download_vars>>

\* lines 347 and 383-439: browser.get and the steps up to the click of the first
\* export link; every exception ends the flow
AsyncExportClick(t) ==
    /\ dl_pc[t] = "course"
    /\ \E o \in {"no_click", "click", "click_download"} :
          /\ dl_pc' = [dl_pc EXCEPT ![t] = IF o = "no_click" THEN "finally" ELSE "wait"]
          /\ pending' = [pending EXCEPT ![t] =
                            IF o = "click_download" THEN @ \cup {dl_batches[t][1]} ELSE @]
    /\ UNCHANGED <<dl_batches, workers, prefs, disk, dl_pos, initial_files, picked,
                   dl_run, not_download_vars>>

\* lines 459-462: _wait_for_download_sync(str(DATA_DIR)) lists DATA_DIR first
AsyncSnapshot(t) ==
    /\ dl_pc[t] = "wait"
    /\ initial_files' = [initial_files EXCEPT ![t] = listdir(DATA_DIR)]
    /\ dl_pc' = [dl_pc EXCEPT ![t] = "poll"]
    /\ UNCHANGED <<dl_batches, workers, prefs, disk, pending, dl_pos, picked,
                   dl_run, not_download_vars>>

\* lines 464-479: the newest new csv file of DATA_DIR is returned, or the wait
\* times out; the file stays where it is
AsyncPoll(t) ==
    /\ dl_pc[t] = "poll"
    /\ LET new == SelectSeq(disk[DATA_DIR], LAMBDA f : f \notin initial_files[t]) IN
       \/ /\ new # <<>>
          /\ picked' = picked \cup {[worker |-> t, course |-> dl_batches[t][1],
                                     file |-> new[Len(new)]]}
       \/ UNCHANGED picked
    /\ dl_pc' = [dl_pc EXCEPT ![t] = "finally"]
    /\ UNCHANGED <<dl_batches, workers, prefs, disk, pending, dl_pos, initial_files,
                   dl_run, not_download_vars>>

\* lines 373-376: finally: browser.quit(); the semaphore is released
AsyncQuit(t) ==
    /\ dl_pc[t] = "finally"
    /\ prefs' = [prefs EXCEPT ![t] = ""]
    /\ pending' = [pending EXCEPT ![t] = {}]
    /\ dl_pc' = [dl_pc EXCEPT ![t] = "done"]
    /\ UNCHANGED <<dl_batches, workers, disk, dl_pos, initial_files, picked,
                   dl_run, not_download_vars>>

\* lines 699-703: one task per course
InitAsync ==
    /\ SocketIdle
    /\ SyncIdle
    /\ LoginIdle
    /\ CollectorIdle
    /\ NamingIdle
    /\ MainIdle
    /\ FastIdle
    /\ BackendIdle
    /\ PartitionIdle
    /\ ParallelIdle
    /\ WaitIdle
    /\ ModalIdle
    /\ TransformIdle
    /\ \E data \in CourseLists : DownloadStart([i \in 1..Len(data) |-> <<data[i]>>])

NextAsync ==
    \/ \E t \in DlWorkers : AsyncCreateDriver(t)
    \/ \E t \in DlWorkers : AsyncExportClick(t)
    \/ \E t \in DlWorkers : DlLand(t)
    \/ \E t \in DlWorkers : AsyncSnapshot(t)
    \/ \E t \in DlWorkers : AsyncPoll(t)
    \/ \E t \in DlWorkers : AsyncQuit(t)

SpecAsync == InitAsync /\ [][NextAsync]_vars

\* ======================================================================
\* src/courses.py, src/course_export_optimized.py: the batch split alone
\* SpecPartition runs lines 1044-1053 of process_courses (the same statements as
\* lines 761-771 of course_export_optimized.py) one statement at a time.
\* ======================================================================
\* lines 1044-1047: batch_size and the slices
PartSplit ==
    /\ UNCHANGED not_partition_vars
    /\ part_pc = "split"
    /\ course_batches' = Chunks(part_data, Max(1, Len(part_data) \div part_W))
    /\ part_pc' = "merge"
    /\ UNCHANGED <<part_data, part_W>>

\* lines 1051-1053: one iteration of "while len(batches) > MAX_WORKERS"
PartMerge ==
    /\ UNCHANGED not_partition_vars
    /\ part_pc = "merge"
    /\ Len(course_batches) > part_W
    /\ course_batches' = MergeExcess(course_batches, Len(course_batches) - 1)
    /\ UNCHANGED <<part_data, part_W, part_pc>>

\* line 1055: the loop has ended, the batches are logged and handed to the pool
PartDone ==
    /\ UNCHANGED not_partition_vars
    /\ part_pc = "merge"
    /\ Len(course_batches) <= part_W
    /\ part_pc' = "done"
    /\ UNCHANGED <<part_data, part_W, course_batches>>

InitPartition ==
    /\ SocketIdle
    /\ SyncIdle
    /\ LoginIdle
    /\ CollectorIdle
    /\ NamingIdle
    /\ MainIdle
    /\ FastIdle
    /\ BackendIdle
    /\ DownloadIdle
    /\ ParallelIdle
    /\ WaitIdle
    /\ ModalIdle
    /\ TransformIdle
    /\ \E n \in 1..MaxPartTasks, W \in 1..MaxPartWorkers :
          PartitionStart([i \in 1..n |-> i], W)

NextPartition ==
    \/ PartSplit
    \/ PartMerge
    \/ PartDone

SpecPartition == InitPartition /\ [][NextPartition]_vars

\* ======================================================================
\* src/course_export_parallel.py: export_course_worker
\* SpecParallel runs one export_course_worker per submitted course, as the
\* pool of process_courses_parallel does (max_workers = min(5, len(course_tuples))).
\* ======================================================================
\* line 340: the default of retries
retries == 3

PwWorkers == 1..Len(course_tuples)

\* lines 167-171
log_and_set_error(r, stage, exc) == [r EXCEPT !.error = stage \o " failed: " \o exc]

\* mutant: the outer except clause returns without appending
Unexpected_Return(t, exc) ==
    /\ pw_result' = [pw_result EXCEPT ![t] = log_and_set_error(@, "Unexpected error", exc)]
    /\ pw_pc' = [pw_pc EXCEPT ![t] = "done"]

\* lines 713-717: the outer except clause, then the append after the try statement
Unexpected(t, exc) ==
    /\ pw_result' = [pw_result EXCEPT ![t] = log_and_set_error(@, "Unexpected error", exc)]
    /\ pw_pc' = [pw_pc EXCEPT ![t] = "append"]

\* lines 699-711: an exception inside the inner try statement, then line 712
ExportPipelineFailed(t, exc) ==
    /\ pw_result' = [pw_result EXCEPT ![t] = log_and_set_error(@, "Export pipeline", exc)]
    /\ pw_pc' = [pw_pc EXCEPT ![t] = "quit_final"]

\* line 652: new_chrome_driver()
PwNewDriver(t) ==
    /\ UNCHANGED not_parallel_vars
    /\ pw_pc[t] = "start"
    /\ \E ok \in BOOLEAN :
          IF ok
          THEN /\ pw_pc' = [pw_pc EXCEPT ![t] = "login"]
               /\ UNCHANGED pw_result
          ELSE Unexpected(t, CreateError)
    /\ UNCHANGED <<course_tuples, attempt, _results_lock, shared_results>>

\* lines 654-670: login(), which sets the error and re-raises, then browser.get(url)
PwLoginAndGet(t) ==
    /\ UNCHANGED not_parallel_vars
    /\ pw_pc[t] = "login"
    /\ \E o \in {"ok", "login_raise", "get_raise"} :
          /\ pw_pc' = [pw_pc EXCEPT ![t] = IF o = "ok" THEN "pipeline" ELSE "quit_return"]
          /\ pw_result' = [pw_result EXCEPT ![t] =
                 CASE o = "ok" -> @
                   [] o = "login_raise" -> log_and_set_error(@, "Login", UIError)
                   [] o = "get_raise" -> log_and_set_error(@, "Navigate to course URL", UIError)]
    /\ UNCHANGED <<course_tuples, attempt, _results_lock, shared_results>>

\* lines 672-676: the gradebook tab, the export dropdown, export all, the alert
\* box and the first refresh
PwPipeline(t) ==
    /\ UNCHANGED not_parallel_vars
    /\ pw_pc[t] = "pipeline"
    /\ \E ok \in BOOLEAN :
          IF ok
          THEN /\ pw_pc' = [pw_pc EXCEPT ![t] = "dropdown"]
               /\ UNCHANGED pw_result
          ELSE ExportPipelineFailed(t, UIError)
    /\ UNCHANGED <<course_tuples, attempt, _results_lock, shared_results>>

\* lines 336-363: one iteration of "for attempt in range(retries)" of
\* open_dropdown: handle_refresh_btn(), which passes on an exception that is
\* neither NoSuchElementException nor TimeoutException, then the click
PwOpenDropdown(t) ==
    /\ UNCHANGED not_parallel_vars
    /\ pw_pc[t] = "dropdown"
    /\ attempt[t] < retries
    /\ \E o \in {"opened", "failed", "refresh_raise"} :
          CASE o = "opened" ->
                 /\ pw_pc' = [pw_pc EXCEPT ![t] = "export"]
                 /\ UNCHANGED <<pw_result, attempt>>
            [] o = "refresh_raise" ->
                 /\ ExportPipelineFailed(t, UIError)
                 /\ UNCHANGED attempt
            [] o = "failed" ->
                 IF attempt[t] = retries - 1
                 THEN /\ pw_result' = [pw_result EXCEPT ![t] =
                                          log_and_set_error(@, "Open dropdown", UIError)]
                      /\ pw_pc' = [pw_pc EXCEPT ![t] = "quit_inner"]
                      /\ UNCHANGED attempt
                 ELSE /\ attempt' = [attempt EXCEPT ![t] = @ + 1]
                      /\ UNCHANGED <<pw_result, pw_pc>>
    /\ UNCHANGED <<course_tuples, _results_lock, shared_results>>

\* lines 683-709: click_first_export() and add_course_id_to_csv()
PwExport(t) ==
    /\ UNCHANGED not_parallel_vars
    /\ pw_pc[t] = "export"
    /\ \E o \in {"success", "warning", "processing_failed", "no_csv", "raise"} :
          CASE o = "success" ->
                 /\ pw_result' = [pw_result EXCEPT ![t].processing_status = "success"]
                 /\ pw_pc' = [pw_pc EXCEPT ![t] = "quit_final"]
            [] o = "warning" ->
                 /\ pw_result' = [pw_result EXCEPT
                        ![t].processing_status = "success",
                        ![t].error = "CSV/Markdown post-processing warning"]
                 /\ pw_pc' = [pw_pc EXCEPT ![t] = "quit_final"]
            [] o = "processing_failed" ->
                 /\ pw_result' = [pw_result EXCEPT ![t] =
                        log_and_set_error(@, "File processing", "Original CSV file not found")]
                 /\ pw_pc' = [pw_pc EXCEPT ![t] = "quit_final"]
            [] o = "no_csv" ->
                 /\ pw_result' = [pw_result EXCEPT ![t] =
                        log_and_set_error(@, "Export grades", "CSV file not downloaded")]
                 /\ pw_pc' = [pw_pc EXCEPT ![t] = "quit_final"]
            [] o = "raise" -> ExportPipelineFailed(t, UIError)
    /\ UNCHANGED <<course_tuples, attempt, _results_lock, shared_results>>

\* browser.quit() at lines 657 and 666 (before an early return, outside the
\* inner try), at line 679 (inside it) and at line 712 (after it)
PwQuit(t) ==
    /\ UNCHANGED not_parallel_vars
    /\ pw_pc[t] \in {"quit_return", "quit_inner", "quit_final"}
    /\ \E ok \in BOOLEAN :
          CASE ok ->
                 /\ pw_pc' = [pw_pc EXCEPT ![t] = "append"]
                 /\ UNCHANGED pw_result
            [] ~ok /\ pw_pc[t] = "quit_inner" -> ExportPipelineFailed(t, QuitError)
            [] ~ok /\ pw_pc[t] # "quit_inner" -> Unexpected(t, QuitError)
    /\ UNCHANGED <<course_tuples, attempt, _results_lock, shared_results>>

\* "with _results_lock:" the lock is taken
PwAcquire(t) ==
    /\ UNCHANGED not_parallel_vars
    /\ pw_pc[t] = "append"
    /\ _results_lock = 0
    /\ _results_lock' = t
    /\ pw_pc' = [pw_pc EXCEPT ![t] = "locked"]
    /\ UNCHANGED <<course_tuples, pw_result, attempt, shared_results>>

\* results.append(result), the lock is released, the worker returns
PwAppend(t) ==
    /\ UNCHANGED not_parallel_vars
    /\ pw_pc[t] = "locked"
    /\ shared_results' = Append(shared_results, pw_result[t])
    /\ _results_lock' = 0
    /\ pw_pc' = [pw_pc EXCEPT ![t] = "done"]
    /\ UNCHANGED <<course_tuples, pw_result, attempt>>

InitParallel ==
    /\ SocketIdle
    /\ SyncIdle
    /\ LoginIdle
    /\ CollectorIdle
    /\ NamingIdle
    /\ MainIdle
    /\ FastIdle
    /\ BackendIdle
    /\ DownloadIdle
    /\ PartitionIdle
    /\ WaitIdle
    /\ ModalIdle
    /\ TransformIdle
    /\ \E data \in CourseLists : ParallelStart(data)

NextParallel ==
    \/ \E t \in PwWorkers : PwNewDriver(t)
    \/ \E t \in PwWorkers : PwLoginAndGet(t)
    \/ \E t \in PwWorkers : PwPipeline(t)
    \/ \E t \in PwWorkers : PwOpenDropdown(t)
    \/ \E t \in PwWorkers : PwExport(t)
    \/ \E t \in PwWorkers : PwQuit(t)
    \/ \E t \in PwWorkers : PwAcquire(t)
    \/ \E t \in PwWorkers : PwAppend(t)

SpecParallel == InitParallel /\ [][NextParallel]_vars

\* ======================================================================
\* src/courses.py: wait_for_parallel_download
\* src/course_export_parallel.py: wait_for_download
\* SpecWait runs one download wait next to the browser that writes the csv.
\* The browser creates the file empty and appends to it; the file can also
\* stay empty. Time is counted in the sleeps of the outer loop.
\* ======================================================================
WaitFunctions == {"wait_for_parallel_download", "wait_for_download"}

\* the browser creates the csv, appends to it, or finishes it
BrowserWrites ==
    /\ UNCHANGED not_wait_vars
    /\ wait_fn \in WaitFunctions
    /\ writing
    /\ \/ /\ csv_size < MaxSize
          /\ csv_size' = csv_size + 1
          /\ UNCHANGED writing
       \/ /\ csv_size >= 0
          /\ writing' = FALSE
          /\ UNCHANGED csv_size
    /\ UNCHANGED <<wait_fn, wait_pc, prev_size, size_checks, polls, wait_ret>>

\* what a wait hands back: the file, the size it last read and the one before
Returned(size, prev, checks) ==
    [kind |-> "file", size |-> size, prev |-> prev, checks |-> checks]

\* courses.py lines 716-726 and 739-748: one iteration of the while loop up to
\* the for statement, or the timeout
WpdListdir ==
    /\ UNCHANGED not_wait_vars
    /\ wait_fn = "wait_for_parallel_download"
    /\ wait_pc = "while"
    /\ IF polls >= MaxPolls
       THEN /\ wait_ret' = [kind |-> "None"]
            /\ wait_pc' = "returned"
            /\ UNCHANGED <<prev_size, size_checks, polls>>
       ELSE IF csv_size >= 0
       THEN /\ wait_pc' = "for"
            /\ prev_size' = 0
            /\ size_checks' = 0
            /\ UNCHANGED <<polls, wait_ret>>
       ELSE /\ polls' = polls + 1
            /\ UNCHANGED <<wait_pc, prev_size, size_checks, wait_ret>>
    /\ UNCHANGED <<wait_fn, csv_size, writing>>

\* courses.py lines 728-737: one iteration of "for _ in range(3)"
WpdCheckSize ==
    /\ UNCHANGED not_wait_vars
    /\ wait_fn = "wait_for_parallel_download"
    /\ wait_pc = "for"
    /\ IF size_checks = 3
       THEN /\ wait_pc' = "while"
            /\ polls' = polls + 1
            /\ UNCHANGED <<prev_size, size_checks, wait_ret>>
       ELSE IF csv_size = prev_size /\ csv_size > 0
       THEN /\ wait_ret' = Returned(csv_size, prev_size, size_checks + 1)
            /\ wait_pc' = "returned"
            /\ UNCHANGED <<prev_size, size_checks, polls>>
       ELSE /\ prev_size' = csv_size
            /\ size_checks' = size_checks + 1
            /\ UNCHANGED <<wait_pc, polls, wait_ret>>
    /\ UNCHANGED <<wait_fn, csv_size, writing>>

\* course_export_parallel.py lines 390-402: one iteration of "while True"
WfdPoll ==
    /\ UNCHANGED not_wait_vars
    /\ wait_fn = "wait_for_download"
    /\ wait_pc = "while"
    /\ IF csv_size >= 0
       THEN /\ wait_ret' = Returned(csv_size, csv_size, 0)
            /\ wait_pc' = "returned"
            /\ UNCHANGED polls
       ELSE IF polls > MaxPolls
       THEN /\ wait_ret' = [kind |-> "None"]
            /\ wait_pc' = "returned"
            /\ UNCHANGED polls
       ELSE /\ polls' = polls + 1
            /\ UNCHANGED <<wait_pc, wait_ret>>
    /\ UNCHANGED <<wait_fn, csv_size, writing, prev_size, size_checks>>

InitWait ==
    /\ SocketIdle
    /\ SyncIdle
    /\ LoginIdle
    /\ CollectorIdle
    /\ NamingIdle
    /\ MainIdle
    /\ FastIdle
    /\ BackendIdle
    /\ DownloadIdle
    /\ PartitionIdle
    /\ ParallelIdle
    /\ ModalIdle
    /\ TransformIdle
    /\ \E fn \in WaitFunctions : WaitStart(fn, "while")

NextWait ==
    \/ BrowserWrites
    \/ WpdListdir
    \/ WpdCheckSize
    \/ WfdPoll

SpecWait == InitWait /\ [][NextWait]_vars

\* ======================================================================
\* src/backend/app/utils/course_gradebook.py: GradebookManager._handle_export_modal
\* src/utils/gradebook_manager.py: GradebookManager.handle_modal
\* SpecModal runs one call of a modal handler. The strategies are numbered
\* 1 (primary action button), 2 (explicit close control), 3 (escape key).
\* ======================================================================
ModalHandlers == {"_handle_export_modal", "handle_modal"}

\* what using a control can do: it acts (the modal goes, or stays), or it raises (always, when the control
\* is not there: wait_for(state="visible") and find_element time out)
ControlOutcomes(there) == IF there THEN {"acted", "raise"} ELSE {"raise"}

\* course_gradebook.py lines 851-861 and 920-923: wait_for_selector for the modal,
\* 10 s; a timeout, or any other exception, ends the handler without error
HemWaitForModal ==
    /\ UNCHANGED not_modal_vars
    /\ modal_fn = "_handle_export_modal"
    /\ modal_pc = "wait"
    /\ modal_pc' = IF modal_present THEN "strategy1" ELSE "done"
    /\ UNCHANGED <<modal_fn, modal_present, has_primary, has_close, tried, closed, dismissed,
                   modal_queue>>

\* course_gradebook.py lines 864-904: "if not closed:" strategy 1, 2 or 3
HemStrategy ==
    /\ UNCHANGED not_modal_vars
    /\ modal_fn = "_handle_export_modal"
    /\ modal_pc \in {"strategy1", "strategy2", "strategy3"}
    /\ LET n == CASE modal_pc = "strategy1" -> 1
                  [] modal_pc = "strategy2" -> 2
                  [] modal_pc = "strategy3" -> 3
           there == CASE n = 1 -> has_primary
                      [] n = 2 -> has_close
                      [] n = 3 -> TRUE
       IN \E o \in ControlOutcomes(there) :
             /\ tried' = Append(tried, n)
             /\ closed' = (o = "acted")
             /\ dismissed' \in (IF o = "acted" THEN BOOLEAN ELSE {FALSE})
             /\ modal_pc' = IF o = "acted" \/ n = 3 THEN "verify"
                            ELSE IF n = 1 THEN "strategy2" ELSE "strategy3"
    /\ UNCHANGED <<modal_fn, modal_present, has_primary, has_close, modal_queue>>

\* course_gradebook.py lines 906-918: the wait for the modal to go, whose timeout
\* is swallowed, or the warning that no strategy closed it
HemVerify ==
    /\ UNCHANGED not_modal_vars
    /\ modal_fn = "_handle_export_modal"
    /\ modal_pc = "verify"
    /\ modal_pc' = "done"
    /\ UNCHANGED <<modal_fn, modal_present, has_primary, has_close, tried, closed, dismissed,
                   modal_queue>>

\* gradebook_manager.py lines 86-100: find_element(".modal__close") and click();
\* NoSuchElementException and every other exception give True as well
handle_modal ==
    /\ UNCHANGED not_modal_vars
    /\ modal_fn = "handle_modal"
    /\ modal_pc = "wait"
    /\ IF modal_present /\ has_close
       THEN \E o \in ControlOutcomes(TRUE) :
               /\ tried' = <<2>>
               /\ closed' = (o = "acted")
               /\ dismissed' \in (IF o = "acted" THEN BOOLEAN ELSE {FALSE})
       ELSE UNCHANGED <<tried, closed, dismissed>>
    /\ modal_pc' = "done"
    /\ UNCHANGED <<modal_fn, modal_present, has_primary, has_close, modal_queue>>

\* the handler has returned; the export of the next course is triggered, on a
\* page that shows the modal or not (_download_sequential, lines 1006-1013, and
\* the for statement of worker_handle_course)
ModalNextCourse ==
    /\ UNCHANGED not_modal_vars
    /\ modal_pc = "done"
    /\ modal_queue # <<>>
    /\ modal_queue' = Tail(modal_queue)
    /\ \E present, primary, close \in BOOLEAN :
          /\ modal_present' = present
          /\ has_primary' = (present /\ primary)
          /\ has_close' = (present /\ close)
    /\ modal_pc' = "wait"
    /\ tried' = <<>>
    /\ closed' = FALSE
    /\ dismissed' = FALSE
    /\ UNCHANGED modal_fn

InitModal ==
    /\ SocketIdle
    /\ SyncIdle
    /\ LoginIdle
    /\ CollectorIdle
    /\ NamingIdle
    /\ MainIdle
    /\ FastIdle
    /\ BackendIdle
    /\ DownloadIdle
    /\ PartitionIdle
    /\ ParallelIdle
    /\ WaitIdle
    /\ TransformIdle
    /\ \E fn \in ModalHandlers, present, primary, close \in BOOLEAN :
       \E data \in CourseLists :
          ModalStart(fn, present, present /\ primary, present /\ close, "wait", Tail(data))

NextModal ==
    \/ HemWaitForModal
    \/ HemStrategy
    \/ HemVerify
    \/ handle_modal
    \/ ModalNextCourse

SpecModal == InitModal /\ [][NextModal]_vars

\* ======================================================================
\* The transform of one raw download alone
\*   src/courses.py process_downloaded_file (752-787) with
\*   generate_gradebook_markdown (569-705), and
\*   src/backend/app/utils/course_gradebook.py process_csv_file (443-608) with
\*   create_markdown_export and _generate_gradebook_markdown (320-441)
\* ======================================================================
\* the student rows of the raw tables the transform is run on
MaxRows == 2

TransformFunctions == {"process_downloaded_file", "process_csv_file"}

\* the header line of the raw download, and the "Point Possible" line NetAcad
\* writes directly after it
Header == <<"NAME", "Q1", "Q2">>

PointPossible == <<"Point Possible", "10", "10">>

\* a grade cell of the raw file: empty, a quoted space directly between the
\* commas, a quoted space with blanks around it (NetAcad's own layout), a score
GradeCells == {"", "\" \"", " \" \" ", "7"}

StudentName(i) == "student" \o ToString(i)

StudentRows ==
    UNION {{[i \in 1..n |-> <<StudentName(i)>> \o g[i]] :
               g \in [1..n -> [1..(Len(Header) - 1) -> GradeCells]]} : n \in 0..MaxRows}

\* the raw download: whether it has the "Point Possible" line, and its student lines
RawTables == [kind : {"table"}, meta : BOOLEAN, students : StudentRows]

\* the lines of the file after the header line
DataLines(raw) == (IF raw.meta THEN <<PointPossible>> ELSE <<>>) \o raw.students

NaN == "NaN"

Numbers == {"7", "10"}

\* a quoted field loses its quotes and keeps the blank between them
Unquote(c) == IF c = "\" \"" THEN " " ELSE c

\* pandas: a field that is one of na_values becomes NaN, anything else is kept
ParseCell(c, na_values) == IF c \in na_values THEN NaN ELSE Unquote(c)

\* pd.read_csv: the first line is the header, the lines listed in skiprows
\* (0-based, the header being line 0) are left out
read_csv(lines, skiprows, na_values) ==
    LET kept == SelectSeq([i \in 1..Len(lines) |-> [n |-> i, cells |-> lines[i]]],
                          LAMBDA l : l.n \notin skiprows)
    IN [columns |-> Header,
        rows |-> [i \in 1..Len(kept) |->
                     [j \in 1..Len(Header) |-> ParseCell(kept[i].cells[j], na_values)]]]

\* course_gradebook.py 484-498: ', " "' and '" " ,' become ',', then the blanks
\* around every comma go; a quoted space with no blank next to it is not matched
CleanCell(c) == IF c = " \" \" " THEN "" ELSE c

CleanLines(lines) ==
    [i \in 1..Len(lines) |-> [j \in 1..Len(lines[i]) |-> CleanCell(lines[i][j])]]

\* df.fillna("NULL")
fillna(df, marker) ==
    [df EXCEPT !.rows = [i \in 1..Len(df.rows) |->
                            [j \in 1..Len(df.rows[i]) |->
                                IF df.rows[i][j] = NaN THEN marker ELSE df.rows[i][j]]]]

InsertAt(s, at, x) == SubSeq(s, 1, at) \o <<x>> \o SubSeq(s, at + 1, Len(s))

\* df.insert(loc, column, value): loc is 0-based
insert(df, loc, column, v) ==
    [columns |-> InsertAt(df.columns, loc, column),
     rows |-> [i \in 1..Len(df.rows) |-> InsertAt(df.rows[i], loc, v)]]

\* df.to_csv(index=False, header=...): NaN is written as the empty string
to_csv(df, header) ==
    [header |-> IF header THEN df.columns ELSE <<>>,
     rows |-> [i \in 1..Len(df.rows) |->
                  [j \in 1..Len(df.rows[i]) |->
                      IF df.rows[i][j] = NaN THEN "" ELSE df.rows[i][j]]]]

\* df.select_dtypes(include=["number"]): a column pandas read as numbers, that is
\* one of a table with rows whose every value is a number or NaN; a column
\* holding a string (the course id, a name, " ", "NULL") has dtype object
Column(df, j) == {df.rows[i][j] : i \in 1..Len(df.rows)}

numeric_columns(df) ==
    {j \in 1..Len(df.columns) : df.rows # <<>> /\ Column(df, j) \subseteq Numbers \cup {NaN}}

\* courses.py 601-650 and course_gradebook.py 374-402: the columns that get a
\* statistics entry
Statistics(df) ==
    IF Cardinality(numeric_columns(df)) > 1
    THEN {df.columns[j] : j \in {k \in numeric_columns(df) :
                                    /\ df.columns[k] # "COURSE_ID"
                                    /\ df.rows # <<>>
                                    /\ Column(df, k) # {NaN}}}
    ELSE {}

\* the content of the narrative document as far as the model follows it
generate_gradebook_markdown(df) ==
    [total_students |-> Len(df.rows), statistics |-> Statistics(df)]

\* the course the download belongs to; course ids are strings in both programs
TransformCourse == [course_id |-> "c1", course_name |-> "Networking"]

\* what the except Exception clause around the body returns
ExceptException_Reraise == [kind |-> "raise"]

ExceptException == [kind |-> "return", result |-> <<FALSE, "", "">>]

TransformReturn(success, csv_path, md_path) ==
    [kind |-> "return", result |-> <<success, csv_path, md_path>>]

TransformFaults == {"ok", "to_csv", "markdown", "unlink"}

\* courses.py 757-761: exists(), read_csv, insert the course id;
\* course_gradebook.py 457-567: exists(), clean the lines, read_csv without file
\* line 1, fillna, insert the course id and the course name
TfRead ==
    /\ tf_pc = "start"
    /\ IF raw_file.kind = "missing"
       THEN /\ tf_ret' = TransformReturn(FALSE, "", "")
            /\ tf_pc' = "returned"
            /\ UNCHANGED tf_df
       ELSE IF raw_file.kind = "malformed"
       THEN /\ tf_ret' = ExceptException
            /\ tf_pc' = "returned"
            /\ UNCHANGED tf_df
       ELSE /\ tf_df' =
                 IF tf_fn = "process_downloaded_file"
                 THEN <<insert(read_csv(DataLines(raw_file), {}, {""}),
                               0, "Course_ID", TransformCourse.course_id)>>
                 ELSE LET read == read_csv(CleanLines(DataLines(raw_file)),
                                           {1}, {"", "NULL"})
                      IN <<insert(insert(fillna(read, "NULL"),
                                         0, "COURSE_ID", TransformCourse.course_id),
                                  1, "COURSE_NAME", TransformCourse.course_name)>>
            /\ tf_pc' = "read"
            /\ UNCHANGED tf_ret
    /\ UNCHANGED <<tf_fn, raw_file, raw_exists, tf_io, csv_file, md_file>>
    /\ UNCHANGED not_transform_vars

\* courses.py 763-771: to_csv(index=False, header=False);
\* course_gradebook.py 569-572: to_csv(index=False, header=True)
TfToCsv ==
    /\ tf_pc = "read"
    /\ IF tf_io = "to_csv"
       THEN /\ tf_ret' = ExceptException
            /\ tf_pc' = "returned"
            /\ UNCHANGED csv_file
       ELSE /\ csv_file' = <<to_csv(tf_df[1], tf_fn = "process_csv_file")>>
            /\ tf_pc' = "csv_written"
            /\ UNCHANGED tf_ret
    /\ UNCHANGED <<tf_fn, raw_file, raw_exists, tf_io, tf_df, md_file>>
    /\ UNCHANGED not_transform_vars

\* courses.py 773-778: a failure to write the document is an exception of the
\* body; course_gradebook.py 574-589: create_markdown_export catches it and
\* returns (False, ""), and process_csv_file then returns with the csv path
TfMarkdown ==
    /\ tf_pc = "csv_written"
    /\ IF tf_io = "markdown"
       THEN /\ tf_ret' = IF tf_fn = "process_downloaded_file"
                         THEN ExceptException
                         ELSE TransformReturn(TRUE,
                                  GradebookCsvPath(TransformCourse.course_id), "")
            /\ tf_pc' = "returned"
            /\ UNCHANGED md_file
       ELSE /\ md_file' = <<generate_gradebook_markdown(tf_df[1])>>
            /\ tf_pc' = "md_written"
            /\ UNCHANGED tf_ret
    /\ UNCHANGED <<tf_fn, raw_file, raw_exists, tf_io, tf_df, csv_file>>
    /\ UNCHANGED not_transform_vars

\* courses.py 780-783 and course_gradebook.py 579-583: unlink the raw download,
\* return the two paths
TfUnlink ==
    /\ tf_pc = "md_written"
    /\ IF tf_io = "unlink"
       THEN /\ tf_ret' = ExceptException
            /\ UNCHANGED raw_exists
       ELSE /\ raw_exists' = FALSE
            /\ tf_ret' =
                 IF tf_fn = "process_downloaded_file"
                 THEN TransformReturn(TRUE, CsvPath(TransformCourse.course_id),
                                      MdPath(TransformCourse.course_id))
                 ELSE TransformReturn(TRUE, GradebookCsvPath(TransformCourse.course_id),
                                      GradebookMdPath(TransformCourse.course_id))
    /\ tf_pc' = "returned"
    /\ UNCHANGED <<tf_fn, raw_file, tf_io, tf_df, csv_file, md_file>>
    /\ UNCHANGED not_transform_vars

InitTransform ==
    /\ SocketIdle
    /\ SyncIdle
    /\ LoginIdle
    /\ CollectorIdle
    /\ NamingIdle
    /\ MainIdle
    /\ FastIdle
    /\ BackendIdle
    /\ DownloadIdle
    /\ PartitionIdle
    /\ ParallelIdle
    /\ WaitIdle
    /\ ModalIdle
    /\ \E fn \in TransformFunctions, io \in TransformFaults :
       \E raw \in RawTables \cup {MissingFile, MalformedFile} :
          TransformStart(fn, raw, io, "start")

NextTransform ==
    \/ TfRead
    \/ TfToCsv
    \/ TfMarkdown
    \/ TfUnlink

SpecTransform == InitTransform /\ [][NextTransform]_vars

\* ======================================================================
\* The naming of the artifacts alone
\*   src/courses.py process_downloaded_file (763-777) and
\*   src/backend/app/utils/course_gradebook.py _execute_gradebook_export
\*   (793-796) with normalize_course_name (97-116)
\* ======================================================================
\* the courses of a run, the seconds the clock runs through, the exports followed
MaxNamed == 2
MaxClock == 1
MaxExports == 3

NamingPrograms == {"process_downloaded_file", "_execute_gradebook_export"}

\* course names, as their characters
CourseNames == {<<"a", " ", "b">>, <<"a", "_", "b">>, <<"a", "-", "b">>, <<"a", ":", "b">>}

\* \w of the regular expressions, over the characters of CourseNames
WordChars == {"a", "b", "_"}

Truncate(s, n) == SubSeq(s, 1, IF Len(s) < n THEN Len(s) ELSE n)

\* courses.py 764: re.sub(r"[^\w\-_]", "_", course_name)[:30]
safe_course_name(course_name) ==
    Truncate([i \in 1..Len(course_name) |->
                 IF course_name[i] \in WordChars \cup {"-"} THEN course_name[i] ELSE "_"],
             30)

\* re.sub(r"[-\s]+", "-", s)
RECURSIVE CollapseHyphens(_)
CollapseHyphens(s) ==
    IF s = <<>> THEN <<>>
    ELSE IF Head(s) \in {"-", " "}
    THEN IF Len(s) > 1 /\ s[2] \in {"-", " "}
         THEN CollapseHyphens(Tail(s))
         ELSE <<"-">> \o CollapseHyphens(Tail(s))
    ELSE <<Head(s)>> \o CollapseHyphens(Tail(s))

RECURSIVE StripHyphens(_)
StripHyphens(s) ==
    IF s = <<>> THEN <<>>
    ELSE IF Head(s) = "-" THEN StripHyphens(Tail(s))
    ELSE IF s[Len(s)] = "-" THEN StripHyphens(SubSeq(s, 1, Len(s) - 1))
    ELSE s

\* course_gradebook.py 97-116 (the names of CourseNames are lower case already)
normalize_course_name(course_name) ==
    LET kept == SelectSeq(course_name, LAMBDA ch : ch \in WordChars \cup {" ", "-"})
        normalized == StripHyphens(CollapseHyphens(kept))
    IN IF Len(normalized) > 80 THEN StripHyphens(Truncate(normalized, 80)) ELSE normalized

\* courses.py 763-769: CSV_DATA_DIR / GRADEBOOK_DATA_<timestamp>_<safe name>.csv;
\* course_gradebook.py 794-796 and 573: GRADEBOOK_CSV_DIR / <normalized>_<timestamp>.csv.
\* The timestamp has the resolution of a second; the course id is in neither.
ArtifactPath(fn, course_name, timestamp) ==
    IF fn = "process_downloaded_file"
    THEN [dir |-> "csv", name |-> safe_course_name(course_name), timestamp |-> timestamp]
    ELSE [dir |-> "gradebooks/csv", name |-> normalize_course_name(course_name),
          timestamp |-> timestamp]

\* the clock passes a second
NmTick ==
    /\ now < MaxClock
    /\ now' = now + 1
    /\ UNCHANGED <<nm_fn, nm_courses, artifacts>>
    /\ UNCHANGED not_naming_vars

\* one export writes its machine table: a worker reaches the write for course c,
\* for the first time or for an export of c that is run again
NmWrite ==
    /\ nm_fn \in NamingPrograms
    /\ Len(artifacts) < MaxExports
    /\ \E c \in DOMAIN nm_courses :
          artifacts' = Append(artifacts,
                              [course_id |-> c,
                               path |-> ArtifactPath(nm_fn, nm_courses[c], now)])
    /\ UNCHANGED <<nm_fn, nm_courses, now>>
    /\ UNCHANGED not_naming_vars

InitNaming ==
    /\ SocketIdle
    /\ SyncIdle
    /\ LoginIdle
    /\ CollectorIdle
    /\ MainIdle
    /\ FastIdle
    /\ BackendIdle
    /\ DownloadIdle
    /\ PartitionIdle
    /\ ParallelIdle
    /\ WaitIdle
    /\ ModalIdle
    /\ TransformIdle
    /\ \E fn \in NamingPrograms, names \in [1..MaxNamed -> CourseNames] :
          NamingStart(fn, names)

NextNaming ==
    \/ NmTick
    \/ NmWrite

SpecNaming == InitNaming /\ [][NextNaming]_vars

\* ======================================================================
\* The course collector alone
\*   src/courses.py collect_course_data (308-375),
\*   src/course_export_async.py login_and_get_courses (248-304),
\*   src/backend/app/utils/course_collector.py _collect_page_courses and
\*   collect_courses (253-423)
\* ======================================================================
\* the pages of the class list the collector is followed through
MaxPages == 2

Collectors == {"collect_course_data", "login_and_get_courses", "_collect_page_courses"}

\* what a page of the class list shows: its course anchors in page order, each
\* with its href and its text; a page may show an anchor an earlier page showed
\* (the transition after the click on "next" has not happened yet), an anchor
\* without text, or no anchor at all
PageContents ==
    {<<>>,
     <<[href |-> "u1", text |-> "a"], [href |-> "u2", text |-> "b"]>>,
     <<[href |-> "u2", text |-> "b"], [href |-> "u3", text |-> "c"]>>,
     <<[href |-> "u3", text |-> ""], [href |-> "u1", text |-> "a2"]>>,
     <<[href |-> "u3", text |-> "c"]>>}

\* the loop over the anchors of one page; acc is <<urls, names>>.
\* courses.py 331-337 and course_export_async.py 274-281 skip a url already
\* collected; course_collector.py 287-291 and 339-357 append every anchor that
\* has an href and a text
RECURSIVE CollectAnchors(_, _, _)
CollectAnchors(fn, anchors, acc) ==
    IF anchors = <<>> THEN acc
    ELSE LET a == Head(anchors)
             seen == {acc[1][i] : i \in 1..Len(acc[1])}
             take == /\ a.href # ""
                     /\ a.text # ""
                     /\ (fn = "_collect_page_courses" \/ a.href \notin seen)
         IN CollectAnchors(fn, Tail(anchors),
                           IF take THEN <<Append(acc[1], a.href), Append(acc[2], a.text)>>
                                   ELSE acc)

CollectorReturn(urls, names) == [kind |-> "return", urls |-> urls, names |-> names]

\* the wait for the anchors of the page found none.
\* courses.py 325-329: the TimeoutException of wait.until leaves the loop for
\* the except Exception of 369-371, on whatever page: return [], [].
\* course_export_async.py 253-271: return [] on page 1, break on a later page.
\* course_collector.py: the wait of 274 on the first page raises into
\* collect_courses (421-423), which returns empty lists; the wait after the
\* click (375-377) is inside the try of the pagination, which breaks.
NoAnchors(fn, pageno, urls, names) ==
    IF fn = "collect_course_data" THEN CollectorReturn(<<>>, <<>>)
    ELSE IF pageno = 1 THEN CollectorReturn(<<>>, <<>>)
    ELSE CollectorReturn(urls, names)

\* one page is read: the wait for its anchors, then the loop over them
ColReadPage ==
    /\ col_pc = "page"
    /\ \E content \in PageContents :
          /\ page_items' = Append(page_items, Len(content))
          /\ anchors_read' = anchors_read \cup {content[i] : i \in 1..Len(content)}
          /\ IF content = <<>>
             THEN /\ col_ret' = NoAnchors(col_fn, Len(page_items) + 1, col_urls, col_names)
                  /\ col_pc' = "returned"
                  /\ UNCHANGED <<col_urls, col_names>>
             ELSE LET acc == CollectAnchors(col_fn, content, <<col_urls, col_names>>)
                  IN /\ col_urls' = acc[1]
                     /\ col_names' = acc[2]
                     /\ col_pc' = "next"
                     /\ UNCHANGED col_ret
    /\ UNCHANGED col_fn
    /\ UNCHANGED not_collector_vars

\* the "next" button: it is clicked and the loop goes on, or it is missing or
\* disabled (or the click raises) and the collector returns what it has
ColNextButton ==
    /\ col_pc = "next"
    /\ \/ /\ Len(page_items) < MaxPages
          /\ col_pc' = "page"
          /\ UNCHANGED col_ret
       \/ /\ col_pc' = "returned"
          /\ col_ret' = CollectorReturn(col_urls, col_names)
    /\ UNCHANGED <<col_fn, col_urls, col_names, anchors_read, page_items>>
    /\ UNCHANGED not_collector_vars

\* courses.py 1017-1027: process_courses goes on to the export only with a
\* non-empty url list as long as the name list
ProceedsToExport(urls, names) == urls # <<>> /\ Len(urls) = Len(names)

InitCollector ==
    /\ SocketIdle
    /\ SyncIdle
    /\ LoginIdle
    /\ MainIdle
    /\ FastIdle
    /\ BackendIdle
    /\ DownloadIdle
    /\ PartitionIdle
    /\ ParallelIdle
    /\ WaitIdle
    /\ ModalIdle
    /\ TransformIdle
    /\ NamingIdle
    /\ \E fn \in Collectors : CollectorStart(fn, "page")

NextCollector ==
    \/ ColReadPage
    \/ ColNextButton

SpecCollector == InitCollector /\ [][NextCollector]_vars

\* ======================================================================
\* src/courses.py: process_courses called twice in one process
\* SpecRuns follows the module globals and the report through two calls; the
\* thread pool of a call is one step that yields the call's all_results.
\* ======================================================================
\* the all_results a call can end up with: one outcome per task, in any mix
RunOutcomes(data) ==
    {[i \in 1..Len(data) |->
         IF i \in ok THEN CourseExportResult(data[i], TRUE, CsvPath(data[i]),
                                             MdPath(data[i]), None)
         ELSE Failed(data[i], "Login failed")] : ok \in SUBSET (1..Len(data))}

\* lines 1044-1102: the workers run and every future is collected
RunWorkers ==
    /\ UNCHANGED not_main_vars
    /\ opc = "start"
    /\ batches = <<>>
    /\ \E res \in RunOutcomes(course_data) : all_results' = res
    /\ opc' = "collect"
    /\ UNCHANGED <<input_vars, collected, wpc, pos, results, browser, download_dir,
                   future, history_vars, global_vars, report_vars>>

\* a second call of process_courses in the same process (lines 1008-1059): its
\* locals start afresh, the module globals of lines 117-123 are what the first
\* call left in them
ProcessCoursesAgain ==
    /\ UNCHANGED not_main_vars
    /\ opc = "completed"
    /\ Len(_all_course_results) = Len(all_results)
    /\ \E data \in CourseLists : course_data' = data
    /\ all_results' = <<>>
    /\ opc' = "start"
    /\ UNCHANGED <<MAX_WORKERS, batches, collected, wpc, pos, results, browser,
                   download_dir, future, history_vars, global_vars, report_vars>>

InitRuns ==
    /\ SocketIdle
    /\ SyncIdle
    /\ LoginIdle
    /\ FastIdle
    /\ BackendIdle
    /\ DownloadIdle
    /\ PartitionIdle
    /\ ParallelIdle
    /\ WaitIdle
    /\ ModalIdle
    /\ TransformIdle
    /\ NamingIdle
    /\ CollectorIdle
    /\ \E data \in CourseLists : MainStart(data, 1)

NextRuns ==
    \/ RunWorkers
    \/ Aggregate
    \/ Save
    \/ ProcessCoursesAgain

SpecRuns == InitRuns /\ [][NextRuns]_vars

\* ======================================================================
\* backend/app/utils/course_gradebook.py: GradebookManager login state
\* during _download_parallel
\* ======================================================================

\* The pages whose content shows a logged-in session (check_login_status:
\* course list on the home page, gradebook tab or /course/ URL).
LoggedInPages == {"home", "course"}

\* The browser context of manager m holds an authenticated page.
Authenticated(m) == page_at[m] \in LoggedInPages

\* Workers inside `async with semaphore`.
ActiveManagers == {m \in BulkCourses : gm_pc[m] \notin {"none", "done", "failed"}}

\* check_login_status(): what the manager's own page shows.
check_login_status(m) == page_at[m] \in LoggedInPages

\* download_with_semaphore: new context, new page, GradebookManager(page).
\* __new__ sees another page, stores it and resets the class-level flag.
GmNew(m) ==
    /\ gm_pc[m] = "none"
    /\ Cardinality(ActiveManagers) < MaxWorkers
    /\ _page' = m
    /\ _is_logged_in' = FALSE
    /\ gm_pc' = [gm_pc EXCEPT ![m] = "ensure"]
    /\ UNCHANGED <<page_at, gm_try, not_login_vars>>

\* ensure_logged_in: reads the class-level flag, then awaits either the
\* status check or the login.
GmEnsure(m) ==
    /\ gm_pc[m] = "ensure"
    /\ gm_pc' = [gm_pc EXCEPT ![m] = IF _is_logged_in THEN "check" ELSE "login"]
    /\ UNCHANGED <<_is_logged_in, _page, page_at, gm_try, not_login_vars>>

\* check_login_status on the manager's own page; it writes the flag.
GmCheck(m) ==
    /\ gm_pc[m] = "check"
    /\ _is_logged_in' = check_login_status(m)
    /\ gm_pc' = [gm_pc EXCEPT ![m] = IF check_login_status(m) THEN "navigate" ELSE "login"]
    /\ UNCHANGED <<_page, page_at, gm_try, not_login_vars>>

\* perform_login: success shows the course list, failure leaves the login
\* page; both write the flag.
GmLogin(m) ==
    /\ gm_pc[m] = "login"
    /\ \E ok \in BOOLEAN :
          /\ _is_logged_in' = ok
          /\ page_at' = [page_at EXCEPT ![m] = IF ok THEN "home" ELSE "login"]
          /\ gm_pc' = [gm_pc EXCEPT ![m] = IF ok THEN "navigate" ELSE "failed"]
    /\ UNCHANGED <<_page, gm_try, not_login_vars>>

\* navigate_to_course: a redirect to the login page clears the flag;
\* download_gradebook then logs in again and retries once.
GmNavigate(m) ==
    /\ gm_pc[m] = "navigate"
    /\ \E redirected \in BOOLEAN :
          IF redirected
          THEN /\ page_at' = [page_at EXCEPT ![m] = "login"]
               /\ _is_logged_in' = FALSE
               /\ gm_pc' = [gm_pc EXCEPT ![m] = IF gm_try[m] = 1 THEN "ensure" ELSE "failed"]
               /\ gm_try' = [gm_try EXCEPT ![m] = 2]
          ELSE /\ page_at' = [page_at EXCEPT ![m] = "course"]
               /\ gm_pc' = [gm_pc EXCEPT ![m] = "export"]
               /\ UNCHANGED <<_is_logged_in, gm_try>>
    /\ UNCHANGED <<_page, not_login_vars>>

\* _execute_gradebook_export, then `finally: await context.close()`.
GmExport(m) ==
    /\ gm_pc[m] = "export"
    /\ gm_pc' = [gm_pc EXCEPT ![m] = "done"]
    /\ UNCHANGED <<_is_logged_in, _page, page_at, gm_try, not_login_vars>>

\* The calling manager may or may not have logged in on its own page
\* (page 0) before the bulk download starts.
InitLogin ==
    /\ SocketIdle
    /\ SyncIdle
    /\ FastIdle
    /\ BackendIdle
    /\ DownloadIdle
    /\ PartitionIdle
    /\ ParallelIdle
    /\ WaitIdle
    /\ ModalIdle
    /\ TransformIdle
    /\ NamingIdle
    /\ CollectorIdle
    /\ MainIdle
    /\ _is_logged_in \in BOOLEAN
    /\ _page = 0
    /\ page_at = [m \in BulkCourses |-> "blank"]
    /\ gm_pc = [m \in BulkCourses |-> "none"]
    /\ gm_try = [m \in BulkCourses |-> 1]

NextLogin ==
    \/ \E m \in BulkCourses : GmNew(m)
    \/ \E m \in BulkCourses : GmEnsure(m)
    \/ \E m \in BulkCourses : GmCheck(m)
    \/ \E m \in BulkCourses : GmLogin(m)
    \/ \E m \in BulkCourses : GmNavigate(m)
    \/ \E m \in BulkCourses : GmExport(m)

SpecLogin == InitLogin /\ [][NextLogin]_vars

\* ======================================================================
\* backend/app/routers/courses.py, models/sync_status.py, utils/tasks.py:
\* the course sync
\* ======================================================================

PROCESSING == "processing"
COMPLETED == "completed"
FAILED == "failed"

\* What CourseCollector does inside sync_courses_background: the browser
\* fails to launch (raised by __aenter__), login or page enumeration fails
\* inside collect_courses, or the lists are collected.
CollectOutcomes == {"launch_error", "login_error", "page_error", "ok"}

\* collect_courses: every exception raised by goto, _navigate_to_login,
\* _send_credentials or _collect_page_courses is logged and replaced by
\* five empty lists.  The number of course ids returned, TRUE if the call
\* returned at all.
collect_courses(outcome, found) ==
    IF outcome = "ok" THEN [returned |-> TRUE, course_ids |-> found]
    ELSE IF outcome \in {"login_error", "page_error"}
         THEN [returned |-> TRUE, course_ids |-> 0]
         ELSE [returned |-> FALSE, course_ids |-> 0]

ProcessingSyncs_None == {}

\* The ids of the records in PROCESSING state.
ProcessingSyncs == {i \in DOMAIN sync_status : sync_status[i].status = PROCESSING}

\* get_active_sync: the PROCESSING record started last, 0 for None.
get_active_sync ==
    IF ProcessingSyncs = {} THEN 0
    ELSE CHOOSE i \in ProcessingSyncs : \A j \in ProcessingSyncs : j <= i

\* create_sync: a new record in PROCESSING state.
create_sync == Append(sync_status, [status |-> PROCESSING, total_scraped |-> 0, error_message |-> ""])

\* sync_courses_from_netacad: the handler has no await, so the event loop
\* runs it to its return before it serves another request.
SyncRequest(r) ==
    /\ sync_response[r] = <<>>
    /\ IF get_active_sync # 0
       THEN /\ sync_response' = [sync_response EXCEPT ![r] =
                   <<[sync_id |-> get_active_sync, message |-> "A sync is already in progress"]>>]
            /\ UNCHANGED <<sync_status, background_tasks>>
       ELSE /\ sync_status' = create_sync
            /\ background_tasks' = Append(background_tasks, [pc |-> "queued", outcome |-> "none"])
            /\ sync_response' = [sync_response EXCEPT ![r] =
                   <<[sync_id |-> Len(create_sync), message |-> "Course sync started"]>>]
    /\ UNCHANGED not_sync_vars

\* sync_courses_background up to its await on the collector.
BgStart(id) ==
    /\ background_tasks[id].pc = "queued"
    /\ background_tasks' = [background_tasks EXCEPT ![id].pc = "collecting"]
    /\ UNCHANGED <<sync_status, sync_response, not_sync_vars>>

\* sync_courses_background from the collector's return to update_sync.
BgFinish(id) ==
    /\ background_tasks[id].pc = "collecting"
    /\ \E outcome \in CollectOutcomes, found \in 0..MaxTasks :
          LET got == collect_courses(outcome, found) IN
          /\ background_tasks' = [background_tasks EXCEPT ![id] = [pc |-> "done", outcome |-> outcome]]
          /\ sync_status' = [sync_status EXCEPT ![id] =
                IF got.returned
                THEN [status |-> COMPLETED, total_scraped |-> got.course_ids, error_message |-> ""]
                ELSE [status |-> FAILED, total_scraped |-> 0, error_message |-> outcome]]
    /\ UNCHANGED <<sync_response, not_sync_vars>>

InitSync ==
    /\ SocketIdle
    /\ MainIdle
    /\ FastIdle
    /\ BackendIdle
    /\ DownloadIdle
    /\ PartitionIdle
    /\ ParallelIdle
    /\ WaitIdle
    /\ ModalIdle
    /\ TransformIdle
    /\ NamingIdle
    /\ CollectorIdle
    /\ LoginIdle
    /\ SyncIdle

NextSync ==
    \/ \E r \in SyncRequests : SyncRequest(r)
    \/ \E id \in DOMAIN background_tasks : BgStart(id)
    \/ \E id \in DOMAIN background_tasks : BgFinish(id)

SpecSync == InitSync /\ [][NextSync]_vars

\* ======================================================================
\* backend/app/socket/main.py: presence pools
\* ======================================================================

\* What a client can send as auth: nothing, a token that does not decode
\* to a user, or a valid token of a user.
Tokens == {"none", "invalid"} \cup UserIds

\* decode_access_token followed by Users.get_user_by_id: the user, or
\* "none".
TokenUser(token) == IF token \in UserIds THEN token ELSE "none"

\* A dict with key k set to v.
SetItem(d, k, v) == [x \in DOMAIN d \cup {k} |-> IF x = k THEN v ELSE d[x]]

\* A dict without key k.
DelItem(d, k) == [x \in DOMAIN d \ {k} |-> d[x]]

\* [_sid for _sid in sids if _sid != sid]
Without(sids, sid) == SelectSeq(sids, LAMBDA s : s # sid)

\* The body shared by connect and user-join once the user is known.
AddSession(sid, user) ==
    /\ SESSION_POOL' = SetItem(SESSION_POOL, sid, user)
    /\ USER_POOL' = SetItem(USER_POOL, user,
           IF user \in DOMAIN USER_POOL THEN Append(USER_POOL[user], sid) ELSE <<sid>>)

\* Keeps the session lists within the bound.
RoomFor(user) == user \in DOMAIN USER_POOL => Len(USER_POOL[user]) < MaxSessions

\* connect(sid, environ, auth): always_connect accepts the socket even
\* without a usable token.
connect(sid, token) ==
    /\ sio_state[sid] = "new"
    /\ sio_state' = [sio_state EXCEPT ![sid] = "connected"]
    /\ IF TokenUser(token) # "none"
       THEN AddSession(sid, TokenUser(token))
       ELSE UNCHANGED <<SESSION_POOL, USER_POOL>>
    /\ UNCHANGED not_socket_vars

\* user_join(sid, data)
user_join(sid, token) ==
    /\ sio_state[sid] = "connected"
    /\ RoomFor(TokenUser(token))
    /\ IF TokenUser(token) # "none"
       THEN AddSession(sid, TokenUser(token))
       ELSE UNCHANGED <<SESSION_POOL, USER_POOL>>
    /\ UNCHANGED <<sio_state, not_socket_vars>>

\* disconnect(sid)
disconnect(sid) ==
    /\ sio_state[sid] = "connected"
    /\ sio_state' = [sio_state EXCEPT ![sid] = "disconnected"]
    /\ IF sid \in DOMAIN SESSION_POOL
       THEN LET user_id == SESSION_POOL[sid]
                rest == Without(USER_POOL[user_id], sid)
            IN /\ SESSION_POOL' = DelItem(SESSION_POOL, sid)
               /\ USER_POOL' = IF Len(rest) = 0 THEN DelItem(USER_POOL, user_id)
                               ELSE SetItem(USER_POOL, user_id, rest)
       ELSE UNCHANGED <<SESSION_POOL, USER_POOL>>
    /\ UNCHANGED not_socket_vars

InitSocket ==
    /\ MainIdle
    /\ FastIdle
    /\ BackendIdle
    /\ DownloadIdle
    /\ PartitionIdle
    /\ ParallelIdle
    /\ WaitIdle
    /\ ModalIdle
    /\ TransformIdle
    /\ NamingIdle
    /\ CollectorIdle
    /\ LoginIdle
    /\ SyncIdle
    /\ SocketIdle

NextSocket ==
    \/ \E sid \in Sids, token \in Tokens : connect(sid, token)
    \/ \E sid \in Sids, token \in Tokens : user_join(sid, token)
    \/ \E sid \in Sids : disconnect(sid)

SpecSocket == InitSocket /\ [][NextSocket]_vars

\* ======================================================================
\* Claims
\* ======================================================================
TaskIds == {course_data[i] : i \in 1..Len(course_data)}

\* the entries of a report's course list; a basic summary has none
CoursesOf(report) == IF report.kind = "full" THEN report.courses ELSE <<>>

DetailsOf(report) == IF report.kind = "full" THEN report.failed_course_details ELSE <<>>

TotalOf(report) ==
    IF report.kind = "full" THEN report.summary.total_courses_found ELSE report.total_courses

SuccessfulOf(report) ==
    IF report.kind = "full" THEN report.summary.successful_exports ELSE report.successful

FailedOf(report) ==
    IF report.kind = "full" THEN report.summary.failed_exports ELSE report.failed

EntriesFor(report, c) == {i \in 1..Len(CoursesOf(report)) : CoursesOf(report)[i].course_id = c}

\* C1: for a batch of n tasks the report built by the run holds exactly n course
\* outcomes and successful + failed = n, however many worker slots failed
\* (browser creation, login, an exception in the worker, an exception from the
\* worker's future).
C1_OutcomeCompleteness ==
    \A report \in {export_data, json_file} :
        report.kind = "full" =>
            /\ Len(report.courses) = Len(course_data)
            /\ report.summary.successful_exports + report.summary.failed_exports
                   = Len(course_data)

\* a report was built after one slot's future raised and another slot's worker
\* hit an exception
C1_Witness ==
    /\ export_data.kind = "full"
    /\ \E w \in Workers : future[w].kind = "raise"
    /\ \E w \in Workers :
          /\ future[w].kind = "return"
          /\ \E i \in 1..Len(future[w].value) :
                future[w].value[i].error \in {UIError, CreateError}

\* C2: the course ids of the report are the input task ids, each exactly once.
C2_EachTaskOnce ==
    export_data.kind = "full" =>
        /\ \A c \in TaskIds : Cardinality(EntriesFor(export_data, c)) = 1
        /\ \A i \in 1..Len(export_data.courses) : export_data.courses[i].course_id \in TaskIds

\* a report of two tasks, one of them reported by the except clause of its slot
C2_Witness ==
    /\ export_data.kind = "full"
    /\ Len(course_data) = 2
    /\ \E i \in 1..Len(export_data.courses) :
          export_data.courses[i].error_message \in {UIError, CreateError}

\* C3 (as claimed): when the orchestrator's wait for the workers has timed out, a
\* report is still persisted and holds one outcome for every task.
C3_ReportAfterTimeout ==
    opc = "raised" =>
        /\ json_file.kind = "full"
        /\ Len(json_file.courses) = Len(course_data)

FailedOutcomes == SelectSeq(_all_course_results, LAMBDA r : ~r.success)

C5_LoginFailedReported ==
    export_data.kind = "full" =>
        \A w \in login_failed : \A k \in 1..Len(batches[w]) :
            /\ Cardinality(EntriesFor(export_data, batches[w][k])) = 1
            /\ \A i \in EntriesFor(export_data, batches[w][k]) :
                  /\ ~export_data.courses[i].success
                  /\ export_data.courses[i].error_message = "Login failed"

Attempted == DOMAIN sm_outcome \cup escaped

CourseFailed(c) == c \in escaped \/ (c \in DOMAIN sm_outcome /\ ~sm_outcome[c].success)

\* C6 (as claimed): after a course of a slot failed, by a failed step or by an
\* exception in its UI flow, every remaining course of the slot is still attempted.
C6_RemainingCoursesAttempted ==
    \A w \in Workers :
        wpc[w] = "done" =>
            \A i, j \in 1..Len(batches[w]) :
                (i < j /\ CourseFailed(batches[w][i])) => batches[w][j] \in Attempted

\* C7 (as claimed): the report shows, for every course, the outcome the state
\* machine produced for it.
C7_OutcomeNeverMutated ==
    export_data.kind = "full" =>
        \A c \in DOMAIN sm_outcome :
            \A i \in EntriesFor(export_data, c) :
                export_data.courses[i] = CourseEntry(sm_outcome[c])

\* C8 (as claimed): no exception of the export state machine escapes to the worker.
C8_NoExceptionEscapes == escaped = {}

Populated(s) == ~IsEmpty(s)

\* C9 (as claimed): every outcome has exactly one of: csv_path non-empty and
\* error empty, or csv_path empty and error non-empty.
C9_PathXorError ==
    \A c \in FastCourses :
        fast_pc[c] = "returned" =>
            LET r == fast_result[c]
            IN (Populated(r.csv_path) /\ IsEmpty(r.error))
                   # (IsEmpty(r.csv_path) /\ Populated(r.error))

BackendOutcomes == {seq_results[i] : i \in 1..Len(seq_results)}

C11_DownloadIsolation ==
    /\ \A w, v \in DlWorkers :
          (w # v /\ prefs[w] # "" /\ prefs[v] # "") => prefs[w] # prefs[v]
    /\ \A p \in picked : p.file.by = p.worker

\* C12 (as claimed): the file a slot's download wait returns for course c, which
\* the slot then transforms and reports for c, was produced by c's own export
\* click.
C12_NoMisattribution == \A p \in picked : p.file.course = p.course

\* C13 (as claimed): when a worker slot has completed, on whichever exit path,
\* its download directory has been removed and, unless closing the browser
\* itself failed, its browser session is closed.
C13_ResourcesReleased ==
    \A w \in Workers :
        wpc[w] = "done" =>
            /\ download_dir[w] = "absent"
            /\ browser[w] # "quit_failed" => browser[w] \in {"closed", "None"}

\* C14 (as claimed): when a shutdown signal has ended a batch run in which
\* outcomes had been collected, a report has been persisted and it holds every
\* outcome collected up to that point.
C14_ReportOnShutdown ==
    (opc = "exited" /\ all_results # <<>>) =>
        /\ json_file.kind # "none"
        /\ Len(CoursesOf(json_file)) >= Len(all_results)

RECURSIVE Concat(_)
Concat(bs) == IF bs = <<>> THEN <<>> ELSE Head(bs) \o Concat(Tail(bs))

\* C15: for n >= 1 tasks and W >= 1 workers the split ends with exactly
\* min(W, n) batches, none of them empty, and the batches concatenated in order
\* are the task list (so every task is in exactly one batch).
C15_PartitionExact ==
    part_pc = "done" =>
        /\ Len(course_batches) = Min(part_W, Len(part_data))
        /\ \A k \in 1..Len(course_batches) : course_batches[k] # <<>>
        /\ Concat(course_batches) = part_data

\* the split has ended after merging surplus batches
C15_Witness ==
    /\ part_pc = "done"
    /\ Len(part_data) = 5
    /\ part_W = 3
    /\ Len(course_batches) = 3

\* C16 (as claimed): after the split no batch holds more than one task more
\* than any other batch.
C16_BatchesBalanced ==
    part_pc = "done" =>
        \A j, k \in 1..Len(course_batches) :
            Len(course_batches[j]) - Len(course_batches[k]) <= 1

\* the worker slots whose browser session exists and has not been closed
ActiveSessions == {w \in Workers : browser[w] \in {"open", "quit_failed"}}

\* C17: at no time are more than MAX_WORKERS worker browser sessions active.
C17_BoundedConcurrency == Cardinality(ActiveSessions) <= MAX_WORKERS

\* the bound is reached: two workers, both with an open session, none finished
C17_Witness ==
    /\ MAX_WORKERS = 2
    /\ Cardinality({w \in Workers : browser[w] = "open"}) = 2

\* C18: within one worker slot a course is started only after every earlier
\* course of the slot has produced its outcome.
C18_SequentialInSlot ==
    \A w \in Workers :
        \A i, j \in 1..Len(batches[w]) :
            (i < j /\ batches[w][j] \in Attempted) => batches[w][i] \in DOMAIN sm_outcome

\* a slot between two courses: the first has its outcome, the second is not started
C18_Witness ==
    \E w \in Workers :
        /\ wpc[w] = "courses"
        /\ Len(batches[w]) = 2
        /\ pos[w] = 2
        /\ batches[w][1] \in DOMAIN sm_outcome
        /\ batches[w][2] \notin Attempted

\* the errors execute_gradebook_actions gives a course whose refresh of the
\* export list, or whose opening of it, returned False (lines 845-863)
ExportListErrors == {"Failed to refresh export list", "Failed to open refresh list"}

\* the errors of execute_gradebook_actions that contain the word "dropdown"
DropdownErrors == {"Failed to open export dropdown"}

\* C20 (as claimed): a course that fails because the export list could not be
\* refreshed and opened, which happens only after all attempts failed, has an
\* error that contains "dropdown".
C20_DropdownError ==
    \A c \in DOMAIN sm_outcome :
        sm_outcome[c].error \in ExportListErrors => sm_outcome[c].error \in DropdownErrors

\* the entries of the shared list that are for course c
EntriesOf(c) == {i \in 1..Len(shared_results) : shared_results[i].course_id = c}

AfterTab == StepSet \ {"get", "tab"}

\* C21: a course whose gradebook tab could not be clicked (click_gradebook_tab
\* returned False after its bounded wait) has the failed outcome "Failed to
\* click on the gradebook tab" and none of the later steps was executed for it;
\* and only such a course has that error.
C21_FailFastOnTab ==
    \A c \in DOMAIN sm_outcome :
        /\ sm_run[c].tab = "False" =>
              /\ sm_outcome[c] = Failed(c, "Failed to click on the gradebook tab")
              /\ \A s \in AfterTab : sm_run[c][s] = "unreached"
        /\ sm_outcome[c].error = "Failed to click on the gradebook tab" =>
              sm_run[c].tab = "False"

\* a course whose page loaded and whose gradebook tab never became clickable
C21_Witness ==
    \E c \in DOMAIN sm_outcome :
        /\ sm_run[c].get = "ok"
        /\ sm_run[c].tab = "False"
        /\ ~sm_outcome[c].success

\* C22 (as claimed): a file the download wait returns is not empty, its size
\* was read at least twice, and the last two reads gave the same size.
C22_StableBeforeReturn ==
    wait_ret.kind = "file" =>
        /\ wait_ret.size > 0
        /\ wait_ret.checks >= 2
        /\ wait_ret.size = wait_ret.prev

\* C23 (as claimed): every course the export state machine was run for has
\* exactly one outcome produced by the state machine.
C23_OneOutcomePerRun ==
    \A w \in Workers :
        \A i \in 1..Len(batches[w]) :
            batches[w][i] \in Attempted => batches[w][i] \in DOMAIN sm_outcome

\* C25 (as claimed): during the processing of one course task login is
\* attempted at most once.
C25_LoginAtMostOnce == login_attempts <= 1

\* C24 (as claimed): when the handler has returned, then, if no modal had
\* appeared, no dismissal was attempted; and if a modal was present, the
\* strategies attempted are 1, 2, 3 in this order, from the first one up to the
\* first that acted, or all three.
C24_ModalFallback ==
    modal_pc = "done" =>
        IF ~modal_present
        THEN tried = <<>>
        ELSE /\ tried # <<>>
             /\ tried = [i \in 1..Len(tried) |-> i]
             /\ closed \/ Len(tried) = 3

\* the transform met a failure: no file, a file pandas cannot parse, or a write
\* or the unlink raising
TransformFailure == raw_file.kind # "table" \/ tf_io # "ok"

\* the one failure process_csv_file reports as a success: the document could not
\* be written after the table was
MarkdownOnlyFailure ==
    tf_fn = "process_csv_file" /\ raw_file.kind = "table" /\ tf_io = "markdown"

C27_RawDeletedOnSuccess ==
    (tf_pc = "returned" /\ tf_ret.kind = "return" /\ tf_ret.result[1]) =>
        /\ ~raw_exists
        /\ csv_file # <<>>
        /\ md_file # <<>>

\* C28 (as claimed): the machine table written for a raw table of R student rows
\* has exactly R rows, the i-th being the i-th student's, each with the course id
\* at position 0, whether or not the raw table has the "Point Possible" row.
C28_RowsPreserved ==
    csv_file # <<>> =>
        LET out == csv_file[1].rows
            students == raw_file.students
        IN /\ Len(out) = Len(students)
           /\ \A i \in 1..Len(out) :
                 /\ out[i][1] = TransformCourse.course_id
                 /\ i <= Len(students) =>
                       \E j \in 1..Len(out[i]) : out[i][j] = students[i][1]

\* the raw cells the claim speaks of: the empty string and a quoted single space
NullCells == {"", "\" \"", " \" \" "}

\* C29 (as claimed): in every emitted row, the cell of a raw cell that is empty
\* or a quoted single space is the marker "NULL".
C29_NullMarker ==
    csv_file # <<>> =>
        \A i \in 1..Len(csv_file[1].rows) : \A k \in 1..Len(raw_file.students) :
            LET out == csv_file[1].rows[i]
                off == Len(out) - Len(Header)
            IN out[off + 1] = raw_file.students[k][1] =>
                  \A j \in 2..Len(Header) :
                      raw_file.students[k][j] \in NullCells => out[off + j] = "NULL"

\* the cells of column p of the emitted machine table
EmittedColumn(p) == {csv_file[1].rows[i][p] : i \in 1..Len(csv_file[1].rows)}

\* a column of the emitted table that holds scores: every cell is a number or
\* null, and at least one is a number
HoldsScores(p) ==
    /\ EmittedColumn(p) \subseteq Numbers \cup {"", "NULL"}
    /\ EmittedColumn(p) \cap Numbers # {}

\* C30 (as claimed): the narrative document has a statistics entry for every
\* column of numbers that has at least one non-null value, and none for the
\* injected course identifier.
C30_StatisticsForNumericColumns ==
    md_file # <<>> =>
        /\ tf_df[1].columns[1] \notin md_file[1].statistics
        /\ \A p \in 2..Len(tf_df[1].columns) :
              HoldsScores(p) => tf_df[1].columns[p] \in md_file[1].statistics

\* C31 (as claimed): no two exports of one run, of different courses or of the
\* same course again, write to the same artifact path.
C31_UniquePaths ==
    \A i, j \in 1..Len(artifacts) :
        i # j => artifacts[i].path # artifacts[j].path

\* C32 (as claimed): what the collector returns is two lists of one length,
\* names[i] being the text of the anchor urls[i] was read from, with no url twice;
\* and the export starts only on lists of one length.
C32_PairsDeduplicated ==
    (col_pc = "returned" /\ col_fn \in {"collect_course_data", "_collect_page_courses"}) =>
        /\ Len(col_ret.urls) = Len(col_ret.names)
        /\ \A i \in 1..Len(col_ret.urls) :
              [href |-> col_ret.urls[i], text |-> col_ret.names[i]] \in anchors_read
        /\ \A i, j \in 1..Len(col_ret.urls) :
              i # j => col_ret.urls[i] # col_ret.urls[j]
        /\ ProceedsToExport(col_ret.urls, col_ret.names) =>
              Len(col_ret.urls) = Len(col_ret.names)

\* C33 (as claimed): a first page without items makes the collector return
\* nothing (a failure); a later page without items ends the pagination, and what
\* the earlier pages gave is returned.
C33_EmptyPage ==
    (col_pc = "returned" /\ col_fn \in {"collect_course_data", "login_and_get_courses"}) =>
        /\ page_items[1] = 0 => col_ret.urls = <<>>
        /\ (Len(page_items) > 1 /\ page_items[Len(page_items)] = 0) =>
              /\ col_ret.urls = col_urls
              /\ col_ret.names = col_names
              /\ col_ret.urls # <<>>

C35_QuickDownloadSeen ==
    \A w \in DlWorkers :
        dl_pc[w] = "poll" =>
            \A f \in listdir(workers[w]) :
                (f.course = dl_batches[w][dl_pos[w]] /\ f.run = dl_run) =>
                    f \notin initial_files[w]

\* C36 (as claimed): the report a call of process_courses builds covers the
\* outcomes of that call and no others: its course list is as long as the call's
\* all_results and lists the course ids of all_results in order, and its counts
\* are those of all_results.
C36_ReportOfThisRun ==
    opc = "completed" =>
        /\ Len(export_data.courses) = Len(all_results)
        /\ \A i \in 1..Len(all_results) :
              i <= Len(export_data.courses) =>
                  export_data.courses[i].course_id = all_results[i].course_id
        /\ export_data.summary.total_courses_found = Len(all_results)

\* C37: during the parallel bulk download a manager that reads
\* is_logged_in as true has an authenticated page in its own context; a
\* login or logout on one context does not change what another manager
\* reads.
C37_LoginStateOwn ==
    \A m \in ActiveManagers : _is_logged_in => Authenticated(m)

\* The requests answered with a newly started sync, and those answered
\* with the id of a sync already in progress.
StartedBy == {r \in SyncRequests : sync_response[r] # <<>> /\ sync_response[r][1].message = "Course sync started"}

ReferredBy == {r \in SyncRequests : sync_response[r] # <<>> /\ sync_response[r][1].message # "Course sync started"}

\* C38: at most one sync record is in PROCESSING state; a request answered
\* while a sync is active names that sync, and only requests that started a
\* sync have a record and a background task, however the requests interleave
\* with the background tasks.
C38_OneActiveSync ==
    /\ Cardinality({i \in DOMAIN sync_status : sync_status[i].status = "processing"}) <= 1
    /\ Len(sync_status) = Cardinality(StartedBy)
    /\ Len(background_tasks) = Cardinality(StartedBy)
    /\ \A r \in ReferredBy : sync_response[r][1].sync_id \in DOMAIN sync_status
    /\ \A r, q \in StartedBy : sync_response[r][1].sync_id = sync_response[q][1].sync_id => r = q

\* Two requests arrived while sync 1 was collecting: both were referred
\* to it and no second record exists.
C38_Witness ==
    /\ Len(sync_status) = 1
    /\ sync_status[1].status = "processing"
    /\ background_tasks[1].pc = "collecting"
    /\ Cardinality(ReferredBy) = 2
    /\ \A r \in ReferredBy : sync_response[r][1].sync_id = 1

\* C39: a sync record is COMPLETED only if the collector logged in and
\* enumerated the course pages; after a failed collection it is FAILED.
C39_CompletedOnlyOnSuccess ==
    \A id \in DOMAIN sync_status :
        background_tasks[id].pc = "done" =>
            /\ sync_status[id].status = "completed" => background_tasks[id].outcome = "ok"
            /\ background_tasks[id].outcome # "ok" => sync_status[id].status = "failed"

\* C40: a user id is a key of USER_POOL exactly when some connected
\* session of SESSION_POOL belongs to that user, and no list of USER_POOL
\* holds a session id that has disconnected.
C40_PoolsAgree ==
    /\ \A u \in UserIds :
          u \in DOMAIN USER_POOL <=>
              \E sid \in DOMAIN SESSION_POOL : sio_state[sid] = "connected" /\ SESSION_POOL[sid] = u
    /\ \A u \in DOMAIN USER_POOL : \A i \in DOMAIN USER_POOL[u] :
          sio_state[USER_POOL[u][i]] # "disconnected"

====
